---- MODULE Spec2Model ----
(***************************************************************************)
(* Model of the multi-signal risk engine of AI-Code-Reviewer:              *)
(*   lib/riskConfig.js, lib/agents/*.js (the six signal calculators),      *)
(*   lib/riskAnalysis.js (analyzeRisk, generateMitigations, audit trace).  *)
(*                                                                         *)
(* Numbers.  JavaScript numbers are modelled as exact rationals            *)
(* [n |-> numerator, d |-> denominator] in lowest terms, so 0.15 is 3/20   *)
(* and Math.round(x * 1000) / 1000 is computed exactly (floor(x*1000+1/2)).*)
(* Binary floating-point representation error is outside the model.        *)
(*                                                                         *)
(* Strings.  A JavaScript string that the code inspects (filename, patch,  *)
(* title, body, pattern) is a sequence of one-character strings, so that   *)
(* toLowerCase() and includes() are computed and not assumed.              *)
(*                                                                         *)
(* Time.  A timestamp is a whole number of hours since the Unix epoch; the *)
(* wall clock `now` is read by Date.now() / new Date().                    *)
(***************************************************************************)
EXTENDS Integers, Sequences, FiniteSets, TLC

VARIABLES
    params,     \* the argument of analyzeRisk: files, pullRequest, histories
    now,        \* the wall clock, in hours since the epoch
    analysis,   \* the RiskAnalysis returned by the latest analyzeRisk call
    exported,   \* the JSON text returned by exportAuditTrace for `analysis`
    patchText,  \* the patch text handed to parseDiffPositions
    positions,  \* what parseDiffPositions(patchText) came to, once it has run
    review,     \* the webhook handler's code files, the inline comments of
                \* the model's review, and the handler's response
    nullArgs,   \* the members of params that the caller passes as null
    outcome,    \* how the call analyzeRisk(params) ended: return or throw
    paced,      \* the paced analyzeRisk(params) under way: where it is, what
                \* it holds, what it returned
    config,     \* RISK_CONFIG, the object the module riskConfig.js exports
    weightCheck,\* what validateWeights() returned and what it warned
    hook,       \* a request to the webhook handler and the handler's progress
    logger,     \* dashboardLogger.js: the buffer, what was sent, the flushes
    embedder,   \* the embedding module: its pipeline and the calls under way
    store       \* the dashboard endpoint's store of logs and reviews

vars == <<params, now, analysis, exported, patchText, positions, review,
          nullArgs, outcome, paced, config, weightCheck, hook, logger,
          embedder, store>>

\* the variables of the diff-position mapper
diffVars == <<patchText, positions>>

\* the variables of the webhook handler's review phase
reviewVars == <<review>>

\* the variables of a call of analyzeRisk that may throw
callVars == <<nullArgs, outcome>>

\* the variables of the paced analyzeRisk
pacedVars == <<paced>>

\* the variables of the configuration, of the webhook handler's requests
\* and of the dashboard services
configVars == <<config, weightCheck>>
serviceVars == <<hook, logger, embedder, store>>

\* no paced analysis is under way
NoRun == [pc |-> 0, startTime |-> 0, traceId |-> <<>>, signals |-> <<>>,
          result |-> <<>>]

\* the handler has no review at hand
NoReview == [codeFiles |-> <<>>, inlineComments |-> <<>>, response |-> <<>>]

-----------------------------------------------------------------------------
(* Exact rational arithmetic standing for JavaScript number arithmetic.    *)

RECURSIVE GCD(_, _)
GCD(a, b) == IF b = 0 THEN a ELSE GCD(b, a % b)

Abs(x) == IF x < 0 THEN -x ELSE x

\* the rational n/d (d > 0) in lowest terms
R(n, d) ==
    LET g == GCD(Abs(n), d)
    IN  [n |-> n \div g, d |-> d \div g]

Zero == R(0, 1)
One == R(1, 1)

RAdd(a, b) ==
    LET g == GCD(a.d, b.d)
        l == (a.d \div g) * b.d
    IN  R(a.n * (l \div a.d) + b.n * (l \div b.d), l)

RMul(a, b) == R(a.n * b.n, a.d * b.d)

\* a / k for an integer k > 0
RDivInt(a, k) == R(a.n, a.d * k)

RLt(a, b) == a.n * b.d < b.n * a.d
RLe(a, b) == a.n * b.d <= b.n * a.d
RGe(a, b) == RLe(b, a)

\* Math.min(a, b)
RMin(a, b) == IF RLt(b, a) THEN b ELSE a

\* Math.floor(a): \div rounds toward minus infinity
RFloor(a) == a.n \div a.d

\* Math.round(a): the nearest integer, a tie going up: floor(a + 1/2)
MathRound(a) == RFloor(RAdd(a, R(1, 2)))

\* a mutant of round: the fraction is cut off instead of rounded
round_truncates(num) == R(RFloor(RMul(num, R(1000, 1))), 1000)

\* round(num, decimals = 3): Math.round(num * 10^3) / 10^3
round(num) == R(MathRound(RMul(num, R(1000, 1))), 1000)

-----------------------------------------------------------------------------
(* Strings as sequences of characters.                                     *)

UpperCase == <<"A","B","C","D","E","F","G","H","I","J","K","L","M",
               "N","O","P","Q","R","S","T","U","V","W","X","Y","Z">>
LowerCase == <<"a","b","c","d","e","f","g","h","i","j","k","l","m",
               "n","o","p","q","r","s","t","u","v","w","x","y","z">>

\* the lower-case letter of each upper-case letter
LowerOf == [c \in {UpperCase[i] : i \in 1..Len(UpperCase)} |->
              LowerCase[CHOOSE i \in 1..Len(UpperCase) : UpperCase[i] = c]]

\* toLowerCase() of one character
LowerChar(c) == IF c \in DOMAIN LowerOf THEN LowerOf[c] ELSE c

\* String.prototype.toLowerCase
toLowerCase(s) == [i \in 1..Len(s) |-> LowerChar(s[i])]

\* String.prototype.includes: p occurs in s as a contiguous substring
includes(s, p) ==
    \E i \in 0..(Len(s) - Len(p)) : SubSeq(s, i + 1, i + Len(p)) = p

-----------------------------------------------------------------------------
(* lib/riskConfig.js                                                       *)

\* the pattern strings of RISK_CONFIG, character by character
s_auth == <<"a","u","t","h">>
s_payment == <<"p","a","y","m","e","n","t">>
s_security == <<"s","e","c","u","r","i","t","y">>
s_crypto == <<"c","r","y","p","t","o">>
s_test == <<"t","e","s","t">>
s_spec == <<"s","p","e","c">>
s_tests_dir == <<"_","_","t","e","s","t","s","_","_">>
s_password == <<"p","a","s","s","w","o","r","d">>
s_secret == <<"s","e","c","r","e","t">>
s_key == <<"k","e","y">>
s_token == <<"t","o","k","e","n">>
s_eval == <<"e","v","a","l">>
s_exec == <<"e","x","e","c">>
s_dangerouslySetInnerHTML == <<"d","a","n","g","e","r","o","u","s","l","y","S","e","t","I","n","n","e","r","H","T","M","L">>
s_innerHTML == <<"i","n","n","e","r","H","T","M","L">>

SignalNames ==
    <<"churn", "coverage_gap", "incident_hotspot",
      "flake_proximity", "diff_risk", "time_pressure">>

\* a mutant of weights: diff_risk mistyped as 1.25
weights_diff_risk_125 ==
    [churn |-> R(15, 100), coverage_gap |-> R(20, 100),
     incident_hotspot |-> R(20, 100), flake_proximity |-> R(10, 100),
     diff_risk |-> R(125, 100), time_pressure |-> R(10, 100)]

\* RISK_CONFIG.weights
weights ==
    [churn |-> R(15, 100), coverage_gap |-> R(20, 100),
     incident_hotspot |-> R(20, 100), flake_proximity |-> R(10, 100),
     diff_risk |-> R(25, 100), time_pressure |-> R(10, 100)]

\* RISK_CONFIG.thresholds
thresholds == [LOW |-> R(3, 10), MEDIUM |-> R(6, 10), HIGH |-> R(1, 1)]

\* RISK_CONFIG.signals.churn
churnConfig == [highChurnThreshold |-> 10, lookbackDays |-> 30]

\* RISK_CONFIG.signals.coverage_gap
coverageGapConfig ==
    [minCoverageThreshold |-> R(7, 10),
     criticalFilePatterns |-> <<s_auth, s_payment, s_security, s_crypto>>]

\* RISK_CONFIG.signals.incident_hotspot
incidentHotspotConfig == [lookbackDays |-> 90, hotspotThreshold |-> 2]

\* RISK_CONFIG.signals.flake_proximity
flakeProximityConfig ==
    [flakePatterns |-> <<s_test, s_spec, s_tests_dir>>, proximityLines |-> 50]

\* RISK_CONFIG.signals.diff_risk
diffRiskConfig ==
    [largeDiffThreshold |-> 500,
     criticalPatterns |->
        <<s_password, s_secret, s_key, s_token, s_auth, s_payment>>,
     dangerousPatterns |->
        <<s_eval, s_exec, s_dangerouslySetInnerHTML, s_innerHTML>>]

\* RISK_CONFIG.signals.time_pressure
timePressureConfig ==
    [rushHourStart |-> 17, rushHourEnd |-> 23,
     weekendRisk |-> R(3, 10), lateNightRisk |-> R(5, 10)]

\* RISK_CONFIG.mitigations: the three suggestion strings of each signal
mitigationConfig ==
    [churn |->
        <<"Consider adding more comprehensive tests for frequently changed files",
          "Review if this file should be refactored to reduce change frequency",
          "Add code freeze consideration for this module">>,
     coverage_gap |->
        <<"Add unit tests for uncovered code paths",
          "Consider integration tests for critical flows",
          "Request coverage report before merge">>,
     incident_hotspot |->
        <<"Request additional reviewer familiar with past incidents",
          "Add monitoring/alerting for this component",
          "Consider feature flag for gradual rollout">>,
     flake_proximity |->
        <<"Review and stabilize nearby flaky tests",
          "Add retry logic or increase timeouts if applicable",
          "Consider quarantining unstable tests">>,
     diff_risk |->
        <<"Break down into smaller, focused PRs",
          "Add security review for sensitive changes",
          "Request architectural review for large changes">>,
     time_pressure |->
        <<"Consider delaying merge to regular hours",
          "Ensure on-call coverage before deploying",
          "Add rollback plan documentation">>]

\* getRiskLevel(score)
getRiskLevel(score) ==
    IF RLt(score, thresholds.LOW) THEN "LOW"
    ELSE IF RLt(score, thresholds.MEDIUM) THEN "MEDIUM"
    ELSE "HIGH"

\* getRiskEmoji(level)
getRiskEmoji(level) ==
    CASE level = "LOW" -> "green"
      [] level = "MEDIUM" -> "yellow"
      [] level = "HIGH" -> "red"
      [] OTHER -> "white"

\* Object.values(RISK_CONFIG.weights).reduce((a, b) => a + b, 0), for the
\* weights w that RISK_CONFIG holds
RECURSIVE sumWeightsOf(_, _)
sumWeightsOf(w, k) ==
    IF k = 0 THEN Zero ELSE RAdd(sumWeightsOf(w, k - 1), w[SignalNames[k]])

sumWeights(k) == sumWeightsOf(weights, k)

\* a mutant of validateWeightsOf: the sum is compared with 1.0 itself
validateWeightsOf_exact(w) ==
    sumWeightsOf(w, Len(SignalNames)) = One

\* validateWeights(): false (and a warning) when |sum - 1.0| > 0.001
validateWeightsOf(w) ==
    LET sum == sumWeightsOf(w, Len(SignalNames))
        diff == RAdd(sum, R(-1, 1))
        absDiff == R(Abs(diff.n), diff.d)
    IN  ~ RLt(R(1, 1000), absDiff)

validateWeights == validateWeightsOf(weights)

-----------------------------------------------------------------------------
(* What the other modules hold while the risk engine is looked at.         *)

\* RISK_CONFIG with the weights w
RiskConfig(w) ==
    [weights |-> w,
     thresholds |-> thresholds,
     signals |-> [churn |-> churnConfig, coverage_gap |-> coverageGapConfig,
                  incident_hotspot |-> incidentHotspotConfig,
                  flake_proximity |-> flakeProximityConfig,
                  diff_risk |-> diffRiskConfig,
                  time_pressure |-> timePressureConfig],
     mitigations |-> mitigationConfig]

\* validateWeights() has not been called, nothing is on the console
NoCheck == [returned |-> <<>>, warnings |-> <<>>]

\* the configuration is the one of the repository
ConfigAsShipped ==
    /\ config = RiskConfig(weights)
    /\ weightCheck = NoCheck

-----------------------------------------------------------------------------
(* Dates.  A date value of a history record or of pullRequest.created_at   *)
(* is [kind |-> "date", t |-> hours], [kind |-> "invalid"] (a string that  *)
(* new Date() cannot parse: NaN) or [kind |-> "missing"] (undefined, null  *)
(* or the empty string).                                                   *)

HoursPerDay == 24

DateAt(t) == [kind |-> "date", t |-> t]
InvalidDate == [kind |-> "invalid"]
MissingDate == [kind |-> "missing"]

\* a mutant of isWithinDays: a record without a usable date counts as recent
isWithinDays_undated(dateStr, days, clock) ==
    IF dateStr.kind # "date" THEN TRUE
    ELSE RLe(R(clock - dateStr.t, HoursPerDay), R(days, 1))

\* isWithinDays(dateStr, days), the clock being new Date() at the call
isWithinDays(dateStr, days, clock) ==
    IF dateStr.kind = "missing" THEN FALSE
    ELSE IF dateStr.kind = "invalid" THEN FALSE   \* NaN <= days is false
    ELSE RLe(R(clock - dateStr.t, HoursPerDay), R(days, 1))

\* Array.prototype.includes
arrayIncludes(arr, x) == \E i \in 1..Len(arr) : arr[i] = x

\* c.files?.includes(name): files is <<array>> or <<>> when the field is absent
filesInclude(optFiles, name) ==
    IF optFiles = <<>> THEN FALSE ELSE arrayIncludes(optFiles[1], name)

\* Array.prototype.slice(0, k)
slice0(arr, k) == SubSeq(arr, 1, IF Len(arr) < k THEN Len(arr) ELSE k)

\* Array.prototype.some over a pattern list
somePattern(patterns, s) == \E i \in 1..Len(patterns) : includes(s, patterns[i])

Max(a, b) == IF a < b THEN b ELSE a

\* Number.prototype.toFixed(1)
toFixed1(x) == R(MathRound(RMul(x, R(10, 1))), 10)

-----------------------------------------------------------------------------
(* lib/agents/churnAgent.js                                                *)

\* the commits of commitHistory that list `name` and are within the lookback
churnFileCommits(name, commitHistory, clock) ==
    Len(SelectSeq(commitHistory,
                  LAMBDA c : /\ filesInclude(c.files, name)
                             /\ isWithinDays(c.date, churnConfig.lookbackDays, clock)))

\* the for-loop of calculate over files[1..k]
RECURSIVE churnLoop(_, _, _, _)
churnLoop(files, commitHistory, clock, k) ==
    IF k = 0 THEN [citations |-> <<>>, totalChurn |-> 0, maxChurn |-> 0]
    ELSE
        LET acc == churnLoop(files, commitHistory, clock, k - 1)
            file == files[k]
            fileCommits == churnFileCommits(file.filename, commitHistory, clock)
        IN  [citations |->
                IF fileCommits > 0
                THEN Append(acc.citations,
                            [file |-> file.filename,
                             commits |-> fileCommits,
                             note |-> IF fileCommits >= churnConfig.highChurnThreshold
                                      THEN "High churn file" ELSE "Normal churn"])
                ELSE acc.citations,
             totalChurn |-> acc.totalChurn + fileCommits,
             maxChurn |-> Max(acc.maxChurn, fileCommits)]

\* calculate(files, commitHistory) of the churn agent
calculateChurn(files, commitHistory, clock) ==
    LET acc == churnLoop(files, commitHistory, clock, Len(files))
        score == RMin(R(acc.maxChurn, churnConfig.highChurnThreshold), One)
    IN  [signal |-> "churn",
         score |-> round(score),
         raw |-> [totalChurn |-> acc.totalChurn, maxChurn |-> acc.maxChurn,
                  fileCount |-> Len(files)],
         citations |-> acc.citations,
         explanation |->
            IF acc.maxChurn >= churnConfig.highChurnThreshold
            THEN <<"High churn detected", acc.maxChurn, churnConfig.lookbackDays>>
            ELSE <<"Normal churn levels", acc.maxChurn, churnConfig.lookbackDays>>]

-----------------------------------------------------------------------------
(* lib/agents/coverageGapAgent.js                                          *)
(* coverageData is a function from filenames to [kind |-> "number", v] or  *)
(* [kind |-> "null"]; a filename outside its domain reads as undefined.    *)

NullCoverage == [kind |-> "null"]
Coverage(v) == [kind |-> "number", v |-> v]

\* coverageData[file.filename] ?? null
coverageOf(coverageData, name) ==
    IF name \in DOMAIN coverageData THEN coverageData[name] ELSE NullCoverage

\* a mutant of isCriticalFile: the filename is matched as written
isCriticalFile_caseSensitive(name) ==
    somePattern(coverageGapConfig.criticalFilePatterns, name)

\* config.criticalFilePatterns.some(p => file.filename.toLowerCase().includes(p))
isCriticalFile(name) ==
    somePattern(coverageGapConfig.criticalFilePatterns, toLowerCase(name))

\* the for-loop of calculate over files[1..k]
RECURSIVE coverageLoop(_, _, _)
coverageLoop(files, coverageData, k) ==
    IF k = 0 THEN [citations |-> <<>>, uncoveredFiles |-> 0, criticalUncovered |-> 0]
    ELSE
        LET acc == coverageLoop(files, coverageData, k - 1)
            file == files[k]
            coverage == coverageOf(coverageData, file.filename)
            isCritical == isCriticalFile(file.filename)
        IN  IF coverage.kind = "null"
            THEN [citations |->
                    Append(acc.citations,
                           [file |-> file.filename, coverage |-> <<"unknown">>,
                            critical |-> isCritical,
                            note |-> "No coverage data available"]),
                  uncoveredFiles |-> acc.uncoveredFiles + 1,
                  criticalUncovered |->
                    acc.criticalUncovered + (IF isCritical THEN 1 ELSE 0)]
            ELSE IF RLt(coverage.v, coverageGapConfig.minCoverageThreshold)
            THEN [citations |->
                    Append(acc.citations,
                           [file |-> file.filename,
                            coverage |-> <<"percent", toFixed1(RMul(coverage.v, R(100, 1)))>>,
                            critical |-> isCritical,
                            note |-> "Below threshold"]),
                  uncoveredFiles |-> acc.uncoveredFiles + 1,
                  criticalUncovered |->
                    acc.criticalUncovered + (IF isCritical THEN 1 ELSE 0)]
            ELSE acc

\* calculate(files, coverageData) of the coverage-gap agent
calculateCoverageGap(files, coverageData) ==
    LET acc == coverageLoop(files, coverageData, Len(files))
        uncoveredRatio ==
            IF Len(files) > 0 THEN R(acc.uncoveredFiles, Len(files)) ELSE Zero
        criticalPenalty == RMul(R(acc.criticalUncovered, 1), R(2, 10))
        score == RMin(RAdd(uncoveredRatio, criticalPenalty), One)
    IN  [signal |-> "coverage_gap",
         score |-> round(score),
         raw |-> [uncoveredFiles |-> acc.uncoveredFiles,
                  criticalUncovered |-> acc.criticalUncovered,
                  totalFiles |-> Len(files)],
         citations |-> acc.citations,
         explanation |->
            IF acc.uncoveredFiles > 0
            THEN <<"files lack adequate coverage", acc.uncoveredFiles, Len(files),
                   acc.criticalUncovered>>
            ELSE <<"All files have adequate test coverage">>]

-----------------------------------------------------------------------------
(* lib/agents/incidentHotspotAgent.js                                      *)

\* a mutant of relatedIncidents: the date of an incident is not looked at
relatedIncidents_anyDate(name, incidentHistory, clock) ==
    SelectSeq(incidentHistory, LAMBDA incident : filesInclude(incident.files, name))

\* the incidents that reference `name` within the lookback, in history order
relatedIncidents(name, incidentHistory, clock) ==
    SelectSeq(incidentHistory,
              LAMBDA incident :
                  /\ filesInclude(incident.files, name)
                  /\ isWithinDays(incident.date, incidentHotspotConfig.lookbackDays, clock))

\* the for-loop of calculate over files[1..k]
RECURSIVE incidentLoop(_, _, _, _)
incidentLoop(files, incidentHistory, clock, k) ==
    IF k = 0 THEN [citations |-> <<>>, hotspotCount |-> 0]
    ELSE
        LET acc == incidentLoop(files, incidentHistory, clock, k - 1)
            file == files[k]
            related == relatedIncidents(file.filename, incidentHistory, clock)
            isHotspot == Len(related) >= incidentHotspotConfig.hotspotThreshold
            recent == slice0(related, 3)
        IN  IF Len(related) > 0
            THEN [citations |->
                    Append(acc.citations,
                           [file |-> file.filename,
                            incidents |-> Len(related),
                            hotspot |-> isHotspot,
                            recentIncidents |->
                                [i \in 1..Len(recent) |->
                                    [id |-> recent[i].id,
                                     severity |-> recent[i].severity,
                                     date |-> recent[i].date]]]),
                  hotspotCount |-> acc.hotspotCount + (IF isHotspot THEN 1 ELSE 0)]
            ELSE acc

\* calculate(files, incidentHistory) of the incident-hotspot agent
calculateIncidentHotspot(files, incidentHistory, clock) ==
    LET acc == incidentLoop(files, incidentHistory, clock, Len(files))
        score == IF Len(files) > 0
                 THEN RMin(R(acc.hotspotCount, Len(files)), One)
                 ELSE Zero
    IN  [signal |-> "incident_hotspot",
         score |-> round(score),
         raw |-> [hotspotCount |-> acc.hotspotCount, totalFiles |-> Len(files)],
         citations |-> acc.citations,
         explanation |->
            IF acc.hotspotCount > 0
            THEN <<"file(s) are incident hotspots", acc.hotspotCount>>
            ELSE <<"No incident hotspots detected in changed files">>]

-----------------------------------------------------------------------------
(* lib/agents/flakeProximityAgent.js                                       *)
(* flakeData is a function from filenames to                               *)
(* [isFlaky, flakeRate, nearFlaky]; outside its domain it reads undefined. *)

\* config.flakePatterns.some(p => file.filename.toLowerCase().includes(p))
isTestFile(name) ==
    somePattern(flakeProximityConfig.flakePatterns, toLowerCase(name))

\* Math.ceil
RCeil(a) == - ((- a.n) \div a.d)

\* the for-loop of calculate over files[1..k]
RECURSIVE flakeLoop(_, _, _)
flakeLoop(files, flakeData, k) ==
    IF k = 0 THEN [citations |-> <<>>, flakeProximityCount |-> Zero]
    ELSE
        LET acc == flakeLoop(files, flakeData, k - 1)
            file == files[k]
            known == file.filename \in DOMAIN flakeData
            flakeInfo == flakeData[file.filename]
        IN  IF known /\ flakeInfo.isFlaky
            THEN [citations |->
                    Append(acc.citations,
                           [file |-> file.filename,
                            isTestFile |-> isTestFile(file.filename),
                            flaky |-> TRUE,
                            flakeRate |-> flakeInfo.flakeRate,
                            note |-> "Flaky test file"]),
                  flakeProximityCount |-> RAdd(acc.flakeProximityCount, One)]
            ELSE IF known /\ flakeInfo.nearFlaky
            THEN [citations |->
                    Append(acc.citations,
                           [file |-> file.filename,
                            isTestFile |-> isTestFile(file.filename),
                            nearFlaky |-> TRUE,
                            note |-> "Near flaky test code"]),
                  flakeProximityCount |-> RAdd(acc.flakeProximityCount, R(5, 10))]
            ELSE acc

\* a mutant of calculateFlakeProximity: every cited file counts 1.0
calculateFlakeProximity_countsCitations(files, flakeData) ==
    LET acc == flakeLoop(files, flakeData, Len(files))
        score == IF Len(files) > 0
                 THEN RMin(R(Len(acc.citations), Len(files)), One)
                 ELSE Zero
    IN  [signal |-> "flake_proximity",
         score |-> round(score),
         raw |-> [flakeProximityCount |-> acc.flakeProximityCount,
                  totalFiles |-> Len(files)],
         citations |-> acc.citations,
         explanation |->
            IF RLt(Zero, acc.flakeProximityCount)
            THEN <<"file(s) near flaky/unstable code", RCeil(acc.flakeProximityCount)>>
            ELSE <<"No flaky test proximity detected">>]

\* calculate(files, flakeData) of the flake-proximity agent
calculateFlakeProximity(files, flakeData) ==
    LET acc == flakeLoop(files, flakeData, Len(files))
        score == IF Len(files) > 0
                 THEN RMin(RDivInt(acc.flakeProximityCount, Len(files)), One)
                 ELSE Zero
    IN  [signal |-> "flake_proximity",
         score |-> round(score),
         raw |-> [flakeProximityCount |-> acc.flakeProximityCount,
                  totalFiles |-> Len(files)],
         citations |-> acc.citations,
         explanation |->
            IF RLt(Zero, acc.flakeProximityCount)
            THEN <<"file(s) near flaky/unstable code", RCeil(acc.flakeProximityCount)>>
            ELSE <<"No flaky test proximity detected">>]

-----------------------------------------------------------------------------
(* lib/agents/diffRiskAgent.js                                             *)
(* A file is [filename, status, additions, deletions, patch]; additions,   *)
(* deletions and patch are <<value>>, or <<>> when the field is absent.    *)

\* f.additions || 0
orZero(opt) == IF opt = <<>> THEN 0 ELSE opt[1]

\* file.patch || ''
orEmpty(opt) == IF opt = <<>> THEN <<>> ELSE opt[1]

\* files.reduce((sum, f) => sum + (f.additions || 0), 0)
RECURSIVE totalAdditions(_, _)
totalAdditions(files, k) ==
    IF k = 0 THEN 0 ELSE totalAdditions(files, k - 1) + orZero(files[k].additions)

\* files.reduce((sum, f) => sum + (f.deletions || 0), 0)
RECURSIVE totalDeletions(_, _)
totalDeletions(files, k) ==
    IF k = 0 THEN 0 ELSE totalDeletions(files, k - 1) + orZero(files[k].deletions)

\* filename.includes(pattern) || patch.toLowerCase().includes(pattern),
\* filename being file.filename.toLowerCase()
criticalMatch(filename, patch, pattern) ==
    \/ includes(filename, pattern)
    \/ includes(toLowerCase(patch), pattern)

\* patch.includes(pattern)
dangerousMatch(patch, pattern) == includes(patch, pattern)

\* the {file, pattern} records pushed for the patterns `hit`
hitRecords(file, hit) ==
    [i \in 1..Len(hit) |-> [file |-> file.filename, pattern |-> hit[i]]]

\* the loop over config.criticalPatterns for one file
criticalHitsOf(file, filename, patch) ==
    LET Matches(pattern) == criticalMatch(filename, patch, pattern)
    IN  hitRecords(file, SelectSeq(diffRiskConfig.criticalPatterns, Matches))

\* the loop over config.dangerousPatterns for one file
dangerousHitsOf(file, patch) ==
    LET Matches(pattern) == dangerousMatch(patch, pattern)
    IN  hitRecords(file, SelectSeq(diffRiskConfig.dangerousPatterns, Matches))

\* the scan loop of calculate over files[1..k]
RECURSIVE diffScanLoop(_, _)
diffScanLoop(files, k) ==
    IF k = 0 THEN [criticalHits |-> <<>>, dangerousHits |-> <<>>]
    ELSE
        LET acc == diffScanLoop(files, k - 1)
            file == files[k]
            patch == orEmpty(file.patch)
            filename == toLowerCase(file.filename)
        IN  [criticalHits |->
                acc.criticalHits \o criticalHitsOf(file, filename, patch),
             dangerousHits |->
                acc.dangerousHits \o dangerousHitsOf(file, patch)]

\* a mutant of isLargeDiff: a total equal to the threshold counts as large
isLargeDiff_inclusive(totalChanges) ==
    totalChanges >= diffRiskConfig.largeDiffThreshold

\* totalChanges > config.largeDiffThreshold
isLargeDiff(totalChanges) == totalChanges > diffRiskConfig.largeDiffThreshold

\* calculate(files, pullRequest) of the diff-risk agent
calculateDiffRisk(files, pullRequest) ==
    LET additions == totalAdditions(files, Len(files))
        deletions == totalDeletions(files, Len(files))
        totalChanges == additions + deletions
        scan == diffScanLoop(files, Len(files))
        large == isLargeDiff(totalChanges)
        critical == Len(scan.criticalHits) > 0
        dangerous == Len(scan.dangerousHits) > 0
        risk1 == IF large THEN R(3, 10) ELSE Zero
        risk2 == IF critical THEN RAdd(risk1, R(3, 10)) ELSE risk1
        riskFactors == IF dangerous THEN RAdd(risk2, R(4, 10)) ELSE risk2
        score == RMin(riskFactors, One)
    IN  [signal |-> "diff_risk",
         score |-> round(score),
         raw |-> [totalChanges |-> totalChanges,
                  totalAdditions |-> additions,
                  totalDeletions |-> deletions,
                  criticalHits |-> Len(scan.criticalHits),
                  dangerousHits |-> Len(scan.dangerousHits)],
         citations |->
            (IF large
             THEN << [type |-> "large_diff", changes |-> totalChanges,
                      threshold |-> diffRiskConfig.largeDiffThreshold] >>
             ELSE <<>>)
            \o (IF critical
                THEN << [type |-> "critical_patterns",
                         hits |-> slice0(scan.criticalHits, 5),
                         count |-> Len(scan.criticalHits)] >>
                ELSE <<>>)
            \o (IF dangerous
                THEN << [type |-> "dangerous_patterns",
                         hits |-> slice0(scan.dangerousHits, 5),
                         count |-> Len(scan.dangerousHits)] >>
                ELSE <<>>),
         explanation |->
            IF RLt(Zero, riskFactors)
            THEN <<"Diff risk factors", totalChanges,
                   Len(scan.criticalHits), Len(scan.dangerousHits)>>
            ELSE <<"No significant diff risk factors detected">>]

-----------------------------------------------------------------------------
(* lib/agents/timePressureAgent.js                                         *)

\* Date.prototype.getHours, the process time zone being UTC;
\* <<>> stands for NaN (an invalid date)
getHours(date) == IF date.kind = "date" THEN << date.t % HoursPerDay >> ELSE <<>>

\* Date.prototype.getDay: 0 is Sunday; 1 January 1970 was a Thursday
getDay(date) ==
    IF date.kind = "date" THEN << (4 + (date.t \div HoursPerDay)) % 7 >> ELSE <<>>

DayNames ==
    <<"Sunday", "Monday", "Tuesday", "Wednesday", "Thursday", "Friday", "Saturday">>

urgencyPatterns ==
    <<<<"u","r","g","e","n","t">>, <<"h","o","t","f","i","x">>, <<"a","s","a","p">>, <<"e","m","e","r","g","e","n","c","y">>, <<"c","r","i","t","i","c","a","l"," ","f","i","x">>>>

\* a mutant of prText: the text is searched as written
prText_asWritten(pullRequest) ==
    pullRequest.title \o <<" ">> \o pullRequest.body

\* `${pullRequest.title || ''} ${pullRequest.body || ''}`.toLowerCase()
prText(pullRequest) ==
    toLowerCase(pullRequest.title \o <<" ">> \o pullRequest.body)

\* the urgency loop with its break: the first pattern found, as <<p>>, or <<>>
firstUrgency(text) ==
    LET found == SelectSeq(urgencyPatterns, LAMBDA p : includes(text, p))
    IN  slice0(found, 1)

\* calculate(pullRequest) of the time-pressure agent
calculateTimePressure(pullRequest, clock) ==
    LET prCreatedAt == IF pullRequest.created_at.kind = "missing"
                       THEN DateAt(clock) ELSE pullRequest.created_at
        hour == getHours(prCreatedAt)
        dayOfWeek == getDay(prCreatedAt)
        isWeekend == dayOfWeek # <<>> /\ (dayOfWeek[1] = 0 \/ dayOfWeek[1] = 6)
        lateNight == hour # <<>> /\
                     (hour[1] >= timePressureConfig.rushHourEnd \/ hour[1] < 6)
        rushHour == hour # <<>> /\ ~ lateNight /\
                    hour[1] >= timePressureConfig.rushHourStart
        urgency == firstUrgency(prText(pullRequest))
        tp1 == IF isWeekend THEN timePressureConfig.weekendRisk ELSE Zero
        tp2 == IF lateNight THEN RAdd(tp1, timePressureConfig.lateNightRisk)
               ELSE IF rushHour THEN RAdd(tp1, R(2, 10))
               ELSE tp1
        timePressure == IF urgency # <<>> THEN RAdd(tp2, R(3, 10)) ELSE tp2
        score == RMin(timePressure, One)
        citations ==
            (IF isWeekend
             THEN << [type |-> "weekend", day |-> DayNames[dayOfWeek[1] + 1]] >>
             ELSE <<>>)
            \o (IF lateNight THEN << [type |-> "late_night", hour |-> hour] >>
                ELSE IF rushHour THEN << [type |-> "rush_hour", hour |-> hour] >>
                ELSE <<>>)
            \o (IF urgency # <<>>
                THEN << [type |-> "urgency_indicator", pattern |-> urgency[1]] >>
                ELSE <<>>)
    IN  [signal |-> "time_pressure",
         score |-> round(score),
         raw |-> [hour |-> hour, dayOfWeek |-> dayOfWeek, isWeekend |-> isWeekend],
         citations |-> citations,
         explanation |->
            IF RLt(Zero, timePressure)
            THEN <<"Time pressure factors detected",
                   [i \in 1..Len(citations) |-> citations[i].type]>>
            ELSE <<"No time pressure factors detected">>]

-----------------------------------------------------------------------------
(* lib/riskAnalysis.js                                                     *)

\* generateTraceId(): `risk-${Date.now()}-${Math.random()...}`
generateTraceId(clock, random) == <<"risk", clock, random>>

\* a mutant of triggersMitigation: a score of exactly 0.5 does not trigger
triggersMitigation_strict(signal) == RLt(R(5, 10), signal.score)

\* signal.score >= 0.5
triggersMitigation(signal) == RGe(signal.score, R(5, 10))

\* a mutant of mitigationFor: every citation of the signal is carried
mitigationFor_allCitations(signalName, signal) ==
    [signal |-> signalName,
     score |-> signal.score,
     requiresApproval |-> TRUE,
     suggestions |-> mitigationConfig[signalName],
     citations |-> signal.citations]

\* the record generateMitigations pushes for one signal
mitigationFor(signalName, signal) ==
    [signal |-> signalName,
     score |-> signal.score,
     requiresApproval |-> TRUE,
     suggestions |-> mitigationConfig[signalName],
     citations |-> slice0(signal.citations, 3)]

\* the for-loop of generateMitigations over the first k entries of signals
RECURSIVE mitigationLoop(_, _)
mitigationLoop(signals, k) ==
    IF k = 0 THEN <<>>
    ELSE
        LET acc == mitigationLoop(signals, k - 1)
            signalName == SignalNames[k]
            signal == signals[signalName]
        IN  IF triggersMitigation(signal)
            THEN Append(acc, mitigationFor(signalName, signal))
            ELSE acc

\* generateMitigations(signals)
generateMitigations(signals) == mitigationLoop(signals, Len(SignalNames))

\* the weighted sum of analyzeRisk, in the order the code adds its terms
weightedSumWith(w, signals) ==
    RAdd(RAdd(RAdd(RAdd(RAdd(
        RMul(w.churn, signals.churn.score),
        RMul(w.coverage_gap, signals.coverage_gap.score)),
        RMul(w.incident_hotspot, signals.incident_hotspot.score)),
        RMul(w.flake_proximity, signals.flake_proximity.score)),
        RMul(w.diff_risk, signals.diff_risk.score)),
        RMul(w.time_pressure, signals.time_pressure.score))

weightedSum(signals) == weightedSumWith(weights, signals)

\* buildRiskSummary: the parts of the text that vary
buildRiskSummaryWith(w, score, level, emoji, signals, mitigations, clock, random) ==
    [header |-> [emoji |-> emoji, level |-> level, score |-> round(score)],
     formula |-> [s \in DOMAIN signals |-> <<w[s], signals[s].score>>],
     rows |->
        [k \in 1..Len(SignalNames) |->
            LET signal == signals[SignalNames[k]]
            IN  [name |-> SignalNames[k],
                 weight |-> w[SignalNames[k]],
                 score |-> signal.score,
                 status |-> IF RGe(signal.score, R(5, 10)) THEN "High"
                            ELSE IF RGe(signal.score, R(3, 10)) THEN "Medium"
                            ELSE "Low",
                 explanation |-> signal.explanation]],
     mitigations |->
        [k \in 1..Len(mitigations) |->
            [signal |-> mitigations[k].signal,
             score |-> mitigations[k].score,
             suggestions |-> slice0(mitigations[k].suggestions, 2),
             citation |-> slice0(mitigations[k].citations, 1)]],
     analysisId |-> generateTraceId(clock, random),
     timestamp |-> clock,
     filesAnalyzed |->
        IF "totalFiles" \in DOMAIN signals[SignalNames[1]].raw
           /\ signals[SignalNames[1]].raw.totalFiles # 0
        THEN << signals[SignalNames[1]].raw.totalFiles >>
        ELSE << "N/A" >>]

buildRiskSummary(score, level, emoji, signals, mitigations, clock, random) ==
    buildRiskSummaryWith(weights, score, level, emoji, signals, mitigations, clock,
                         random)

\* analyzeRisk, lines 38-64: the six agents run, the weighted sum, the level
\* and the mitigations
riskCoreWith(w, p, clock) ==
    LET signals ==
            [churn |-> calculateChurn(p.files, p.commitHistory, clock),
             coverage_gap |-> calculateCoverageGap(p.files, p.coverageData),
             incident_hotspot |->
                calculateIncidentHotspot(p.files, p.incidentHistory, clock),
             flake_proximity |-> calculateFlakeProximity(p.files, p.flakeData),
             diff_risk |-> calculateDiffRisk(p.files, p.pullRequest),
             time_pressure |-> calculateTimePressure(p.pullRequest, clock)]
        riskScore == weightedSumWith(w, signals)
        riskLevel == getRiskLevel(riskScore)
    IN  [signals |-> signals,
         riskScore |-> riskScore,
         riskLevel |-> riskLevel,
         riskEmoji |-> getRiskEmoji(riskLevel),
         mitigations |-> generateMitigations(signals)]

riskCore(p, clock) == riskCoreWith(weights, p, clock)

\* a mutant of riskResult: the trace takes the sum as it is, not rounded
riskResult_traceUnrounded(core, p, clock, random1, random2) ==
    LET startTime == clock
        traceId == generateTraceId(clock, random1)
        auditTrace ==
            [traceId |-> traceId,
             timestamp |-> clock,
             executionTimeMs |-> clock - startTime,
             pullRequest |->
                [number |-> p.pullRequest.number,
                 title |-> p.pullRequest.title,
                 author |-> p.pullRequest.user],
             filesAnalyzed |-> Len(p.files),
             formula |-> "R = w1*churn + w2*coverage_gap + w3*incident_hotspot + w4*flake_proximity + w5*diff_risk + w6*time_pressure",
             weights |-> weights,
             signals |->
                [s \in DOMAIN core.signals |->
                    [score |-> core.signals[s].score,
                     explanation |-> core.signals[s].explanation,
                     citationCount |-> Len(core.signals[s].citations)]],
             finalScore |-> core.riskScore,
             riskLevel |-> core.riskLevel,
             mitigationCount |-> Len(core.mitigations)]
    IN  [score |-> round(core.riskScore),
         level |-> core.riskLevel,
         emoji |-> core.riskEmoji,
         signals |-> core.signals,
         mitigations |-> core.mitigations,
         auditTrace |-> auditTrace,
         summary |-> buildRiskSummary(core.riskScore, core.riskLevel, core.riskEmoji,
                                      core.signals, core.mitigations, clock, random2)]

\* analyzeRisk, lines 32-33 and 66-101: the audit trace and the returned
\* record; the clock reads `clock` throughout the call, random1 and random2 are
\* the values of the two Math.random() calls (trace id, summary id)
riskResultWith(w, core, p, clock, random1, random2) ==
    LET startTime == clock
        traceId == generateTraceId(clock, random1)
        auditTrace ==
            [traceId |-> traceId,
             timestamp |-> clock,
             executionTimeMs |-> clock - startTime,
             pullRequest |->
                [number |-> p.pullRequest.number,
                 title |-> p.pullRequest.title,
                 author |-> p.pullRequest.user],
             filesAnalyzed |-> Len(p.files),
             formula |-> "R = w1*churn + w2*coverage_gap + w3*incident_hotspot + w4*flake_proximity + w5*diff_risk + w6*time_pressure",
             weights |-> w,
             signals |->
                [s \in DOMAIN core.signals |->
                    [score |-> core.signals[s].score,
                     explanation |-> core.signals[s].explanation,
                     citationCount |-> Len(core.signals[s].citations)]],
             finalScore |-> round(core.riskScore),
             riskLevel |-> core.riskLevel,
             mitigationCount |-> Len(core.mitigations)]
    IN  [score |-> round(core.riskScore),
         level |-> core.riskLevel,
         emoji |-> core.riskEmoji,
         signals |-> core.signals,
         mitigations |-> core.mitigations,
         auditTrace |-> auditTrace,
         summary |-> buildRiskSummaryWith(w, core.riskScore, core.riskLevel,
                                          core.riskEmoji, core.signals,
                                          core.mitigations, clock, random2)]

riskResult(core, p, clock, random1, random2) ==
    riskResultWith(weights, core, p, clock, random1, random2)

\* analyzeRisk(params)
analyzeRisk(p, clock, random1, random2) ==
    riskResult(riskCore(p, clock), p, clock, random1, random2)

-----------------------------------------------------------------------------
(* exportAuditTrace and the JSON text it produces.  The text is modelled   *)
(* as the sequence of its members [path, type, text]; a number is written  *)
(* as its decimal digits, a member whose value is undefined is left out.   *)

DigitChars == <<"0","1","2","3","4","5","6","7","8","9">>

RECURSIVE natToString(_)
natToString(n) ==
    IF n < 10 THEN << DigitChars[n + 1] >>
    ELSE natToString(n \div 10) \o << DigitChars[(n % 10) + 1] >>

\* f written with exactly `width` digits, zeros in front kept
RECURSIVE fixedDigits(_, _)
fixedDigits(f, width) ==
    IF width = 0 THEN <<>>
    ELSE fixedDigits(f \div 10, width - 1) \o << DigitChars[(f % 10) + 1] >>

\* the digits of the fraction f / 10^width, zeros at the end dropped
RECURSIVE fractionToString(_, _)
fractionToString(f, width) ==
    IF f = 0 \/ width = 0 THEN <<>>
    ELSE IF f % 10 = 0 THEN fractionToString(f \div 10, width - 1)
    ELSE fixedDigits(f, width)

\* a mutant of numberToString: Number.prototype.toFixed(2) instead of String()
numberToString_toFixed2(q) ==
    LET scaled == (q.n * 100) \div q.d
    IN  natToString(scaled \div 100) \o <<".">>
        \o << DigitChars[((scaled \div 10) % 10) + 1], DigitChars[(scaled % 10) + 1] >>

\* String(q) for a number q >= 0 with at most five decimal places, as
\* JSON.stringify writes it: "0.15", "0.333", "1"
numberToString(q) ==
    LET scaled == q.n * (100000 \div q.d)
        whole == scaled \div 100000
        frac == scaled % 100000
    IN  IF frac = 0 THEN natToString(whole)
        ELSE natToString(whole) \o <<".">> \o fractionToString(frac, 5)

DigitValue(c) == (CHOOSE i \in 1..10 : DigitChars[i] = c) - 1

RECURSIVE digitsToNat(_)
digitsToNat(str) ==
    IF str = <<>> THEN 0
    ELSE 10 * digitsToNat(SubSeq(str, 1, Len(str) - 1)) + DigitValue(str[Len(str)])

RECURSIVE pow10(_)
pow10(k) == IF k = 0 THEN 1 ELSE 10 * pow10(k - 1)

\* JSON.parse of a number text
parseNumber(str) ==
    IF \E i \in 1..Len(str) : str[i] = "."
    THEN LET dot == CHOOSE i \in 1..Len(str) : str[i] = "."
             whole == SubSeq(str, 1, dot - 1)
             frac == SubSeq(str, dot + 1, Len(str))
         IN  RAdd(R(digitsToNat(whole), 1), R(digitsToNat(frac), pow10(Len(frac))))
    ELSE R(digitsToNat(str), 1)

Member(path, type, text) == [path |-> path, type |-> type, text |-> text]

\* a member for an optional value: nothing when it is undefined
OptionalMember(path, type, opt) ==
    IF opt = <<>> THEN <<>> ELSE << Member(path, type, opt[1]) >>

RECURSIVE signalMembers(_, _)
signalMembers(trace, k) ==
    IF k = 0 THEN <<>>
    ELSE LET s == SignalNames[k]
         IN  signalMembers(trace, k - 1) \o
             << Member(<<"signals", s, "score">>, "number",
                       numberToString(trace.signals[s].score)),
                Member(<<"signals", s, "explanation">>, "string",
                       trace.signals[s].explanation),
                Member(<<"signals", s, "citationCount">>, "number",
                       natToString(trace.signals[s].citationCount)) >>

RECURSIVE weightMembers(_, _)
weightMembers(trace, k) ==
    IF k = 0 THEN <<>>
    ELSE weightMembers(trace, k - 1) \o
         << Member(<<"weights", SignalNames[k]>>, "number",
                   numberToString(trace.weights[SignalNames[k]])) >>

\* exportAuditTrace(analysis): JSON.stringify(analysis.auditTrace, null, 2)
exportAuditTrace(a) ==
    LET trace == a.auditTrace
    IN  << Member(<<"traceId">>, "string", trace.traceId),
           Member(<<"timestamp">>, "string", trace.timestamp),
           Member(<<"executionTimeMs">>, "number", natToString(trace.executionTimeMs)) >>
        \o OptionalMember(<<"pullRequest", "number">>, "number", trace.pullRequest.number)
        \o << Member(<<"pullRequest", "title">>, "string", trace.pullRequest.title) >>
        \o OptionalMember(<<"pullRequest", "author">>, "string", trace.pullRequest.author)
        \o << Member(<<"filesAnalyzed">>, "number", natToString(trace.filesAnalyzed)),
              Member(<<"formula">>, "string", trace.formula) >>
        \o weightMembers(trace, Len(SignalNames))
        \o signalMembers(trace, Len(SignalNames))
        \o << Member(<<"finalScore">>, "number", numberToString(trace.finalScore)),
              Member(<<"riskLevel">>, "string", trace.riskLevel),
              Member(<<"mitigationCount">>, "number",
                     natToString(trace.mitigationCount)) >>

\* the text of the member at `path`
memberText(json, path) ==
    json[CHOOSE i \in 1..Len(json) : json[i].path = path].text

\* JSON.parse of an exported trace: the members the formula is reapplied to
parseAuditTrace(json) ==
    [finalScore |-> parseNumber(memberText(json, <<"finalScore">>)),
     riskLevel |-> memberText(json, <<"riskLevel">>),
     filesAnalyzed |-> digitsToNat(memberText(json, <<"filesAnalyzed">>)),
     mitigationCount |-> digitsToNat(memberText(json, <<"mitigationCount">>)),
     weights |->
        [s \in {SignalNames[k] : k \in 1..Len(SignalNames)} |->
            parseNumber(memberText(json, <<"weights", s>>))],
     signals |->
        [s \in {SignalNames[k] : k \in 1..Len(SignalNames)} |->
            [score |-> parseNumber(memberText(json, <<"signals", s, "score">>)),
             citationCount |->
                digitsToNat(memberText(json, <<"signals", s, "citationCount">>))]]]

-----------------------------------------------------------------------------
(* The inputs the analysis is checked on.                                  *)

MaxTicks == 1       \* how far the wall clock advances
MaxCommits == 10    \* commits of one kind in a commit history
MaxFiles == 4       \* changed files of a pull request taken from FilePool
MaxPadding == 7     \* unremarkable files that follow one remarkable file

\* Friday 2 January 2026, 22:00: the wall clock when the model starts
T0 == (20455 * HoursPerDay) + 22

\* The services around the risk engine, before any request
\* the webhook before a request: nothing called, nothing answered
NoRequest ==
    [pc |-> "idle", request |-> <<>>, calls |-> {},
     codeFiles |-> <<>>, validFiles |-> <<>>,
     riskAnalysis |-> <<>>, riskError |-> <<>>, relevantContext |-> 0,
     inlineComments |-> <<>>, posted |-> <<>>, response |-> <<>>]
MaxLogs == 3        \* entries appended with log()
MaxFlushes == 2     \* calls of flushToDashboard

\* let logBuffer = [], let reviewData = null, nothing sent, no flush begun.
\* arrays are the arrays that logBuffer has referred to, the last of them
\* the one it refers to now; a flush iterates the array it found
NoLogger ==
    [arrays |-> << <<>> >>,
     reviewData |-> <<>>,
     logged |-> 0,
     posted |-> {},
     reviewsPosted |-> 0,
     flushes |-> [f \in 1..MaxFlushes |-> [pc |-> "idle", arr |-> 0, i |-> 0]]]
MaxCallers == 2     \* how many calls into the embedding module are under way

\* let embedder = null, pipeline() not called, no call under way
NoEmbedder ==
    [instance |-> <<>>,
     pipelineCalls |-> 0,
     callers |-> [c \in 1..MaxCallers |-> [fn |-> "none", pc |-> "idle", model |-> <<>>]]]
\* the dashboard endpoint as its module is loaded: let logs = [ the
\* 'Dashboard connected' entry ], let reviews = [], no request answered;
\* logsAdded and reviewsAdded count the entries pushed since then
seedLog == [timestamp |-> T0, level |-> "INFO", source |-> "webhook", message |-> 0]

NoStore ==
    [logs |-> << seedLog >>, reviews |-> <<>>,
     logsAdded |-> 0, reviewsAdded |-> 0, status |-> 0]

\* no request is being handled
ServicesIdle ==
    /\ hook = NoRequest
    /\ logger = NoLogger
    /\ embedder = NoEmbedder
    /\ store = NoStore

RandomValues == {"k3x9", "p7q2"}

n_util == <<"u","t","i","l",".","j","s">>
n_app == <<"a","p","p",".","j","s">>
n_lib == <<"l","i","b",".","j","s">>
n_Auth == <<"A","u","t","h",".","j","s">>
n_keys == <<"k","e","y","s",".","t","s">>
n_pay == <<"p","a","y",".","j","s">>
n_Crypto == <<"C","r","y","p","t","o",".","t","s">>

p_plain == <<"+","x","=","1">>
p_eval == <<"+","e","v","a","l","(","x",")">>
p_EVAL == <<"+","E","V","A","L","(","x",")">>
p_TOKEN == <<"+","T","O","K","E","N","=","1">>

File(name, additions, deletions, patch) ==
    [filename |-> name, status |-> "modified",
     additions |-> additions, deletions |-> deletions, patch |-> patch]

PlainFile(name) == File(name, <<10>>, <<2>>, <<p_plain>>)

FilePool == <<n_util, n_app, n_Auth, n_keys, n_pay, n_Crypto, n_lib>>

Min(a, b) == IF a < b THEN a ELSE b

\* the first k names of the pool as unremarkable changed files
PoolFiles(k) == [i \in 1..k |-> PlainFile(FilePool[i])]
PoolNames(k) == {FilePool[i] : i \in 1..k}
FileCounts == 0..Min(MaxFiles, Len(FilePool))

RECURSIVE Repeat(_, _)
Repeat(x, k) == IF k <= 0 THEN <<>> ELSE <<x>> \o Repeat(x, k - 1)

QuietPR ==
    [number |-> <<42>>, title |-> <<"f","i","x"," ","t","y","p","o">>, body |-> <<>>,
     user |-> <<"octocat">>,
     created_at |-> DateAt(T0 - 58)]          \* Wednesday 12:00

UndatedPR ==
    [number |-> <<>>, title |-> <<"c","l","e","a","n","u","p">>, body |-> <<>>,
     user |-> <<"octocat">>,
     created_at |-> MissingDate]

Commit(names, date) == [files |-> <<names>>, date |-> date]
Incident(id, names, date) ==
    [id |-> id, files |-> <<names>>, severity |-> "high", date |-> date]

\* dated exactly lookbackDays before T0: inside the window at T0, outside later
ChurnEdge == DateAt(T0 - (churnConfig.lookbackDays * HoursPerDay))
IncidentEdge == DateAt(T0 - (incidentHotspotConfig.lookbackDays * HoursPerDay))
Recent == DateAt(T0 - HoursPerDay)
Stale == DateAt(T0 - (400 * HoursPerDay))

Params(files, pullRequest, commitHistory, coverageData, incidentHistory, flakeData) ==
    [files |-> files, pullRequest |-> pullRequest,
     commitHistory |-> commitHistory, coverageData |-> coverageData,
     incidentHistory |-> incidentHistory, flakeData |-> flakeData]

\* a coverage map from a choice of "absent", "null", "below", "at" per filename
CoverageChoices == {"absent", "below", "at"}
CoverageFrom(choice) ==
    [n \in {m \in DOMAIN choice : choice[m] # "absent"} |->
        IF choice[n] = "below" THEN Coverage(R(69, 100)) ELSE Coverage(R(7, 10))]

\* a flake map from a choice of "absent", "flaky", "near", "both" per filename
FlakeChoices == {"absent", "flaky", "near", "both"}
FlakeFrom(choice) ==
    [n \in {m \in DOMAIN choice : choice[m] # "absent"} |->
        [isFlaky |-> choice[n] \in {"flaky", "both"},
         flakeRate |-> R(1, 4),
         nearFlaky |-> choice[n] \in {"near", "both"}]]

\* commit histories: a commits at the edge of the window on util.js, b recent
\* commits on util.js and app.js, then records that must not count
ChurnInputs ==
    { Params(PoolFiles(k), QuietPR,
             Repeat(Commit(<<n_util>>, ChurnEdge), a)
                \o Repeat(Commit(<<n_util, n_app>>, Recent), b)
                \o extra,
             <<>>, <<>>, <<>>) :
        k \in {2}, a \in 0..MaxCommits, b \in {0, 1, 6},
        extra \in { <<>>,
                    << Commit(<<n_util>>, Stale),
                       Commit(<<n_util>>, MissingDate),
                       Commit(<<n_util>>, InvalidDate),
                       [files |-> <<>>, date |-> Recent] >> } }

\* the choices a family makes for the file at position i of the pool
ChoicesAt(i, first, second, third, rest) ==
    IF i = 1 THEN first ELSE IF i = 2 THEN second ELSE IF i = 3 THEN third ELSE rest

\* the maps from the first k names of the pool to the choices of their places
PoolChoices(k, first, second, third, rest) ==
    { choice \in [PoolNames(k) -> first \cup second \cup third \cup rest] :
        \A i \in 1..k : choice[FilePool[i]] \in ChoicesAt(i, first, second, third, rest) }

\* coverage maps over the first k files of the pool
CoverageInputs ==
    UNION { { Params(PoolFiles(k), QuietPR, <<>>, CoverageFrom(choice), <<>>, <<>>) :
                choice \in PoolChoices(k, CoverageChoices, {"absent", "at"},
                                       CoverageChoices, {"absent", "at"}) } :
            k \in FileCounts }

\* incident histories: i incidents at the edge of the window on util.js,
\* j recent ones on app.js
IncidentInputs ==
    { Params(PoolFiles(k), QuietPR, <<>>, <<>>,
             Repeat(Incident("INC-1", <<n_util>>, IncidentEdge), i)
                \o Repeat(Incident("INC-2", <<n_app>>, Recent), j)
                \o extra,
             <<>>) :
        k \in FileCounts, i \in 0..2, j \in {0, 2},
        extra \in { <<>>, << Incident("INC-3", <<n_util>>, MissingDate) >> } }

\* flake maps over the first k files of the pool
FlakeInputs ==
    UNION { { Params(PoolFiles(k), QuietPR, <<>>, <<>>, <<>>, FlakeFrom(choice)) :
                choice \in PoolChoices(Min(k, 3), FlakeChoices, {"absent", "near"},
                                       {"absent", "flaky"}, {"absent"}) } :
            k \in FileCounts }

\* one remarkable file among many: ratios such as 1/8 and 0.5/8
PaddedInputs ==
    { Params(<< PlainFile(n_app) >> \o Repeat(PlainFile(n_util), pad), QuietPR,
             << Commit(<<n_app>>, Recent) >>,
             [n \in {n_util} |-> Coverage(R(9, 10))],
             Repeat(Incident("INC-4", <<n_app>>, Recent), 2),
             [n \in {n_app} |->
                [isFlaky |-> FALSE, flakeRate |-> Zero, nearFlaky |-> near]]) :
        pad \in 0..MaxPadding, near \in BOOLEAN }

\* diffs: one file over every size, name and patch, and an optional second file
DiffInputs ==
    { Params(<< File(name, additions, deletions, patch) >> \o second, pr,
             <<>>, <<>>, <<>>, <<>>) :
        name \in {n_util, n_Auth},
        additions \in { <<>>, <<500>>, <<600>> },
        deletions \in { <<0>>, <<1>> },
        patch \in { <<>>, <<p_plain>>, <<p_eval>>, <<p_EVAL>>, <<p_TOKEN>> },
        second \in { <<>>, << File(n_keys, <<1>>, <<>>, <<p_eval>>) >> },
        pr \in {QuietPR} }

\* pull requests: the creation time and the text
TimeInputs ==
    { Params(PoolFiles(1),
             [number |-> <<44>>, title |-> title, body |-> body,
              user |-> <<"octocat">>, created_at |-> created],
             <<>>, <<>>, <<>>, <<>>) :
        title \in { <<"f","i","x"," ","t","y","p","o">>, <<"H","O","T","F","I","X">>, <<"U","r","g","e","n","t",":"," ","a","s","a","p">> },
        body \in { <<>>, <<"e","m","e","r","g","e","n","c","y">> },
        created \in { MissingDate, InvalidDate,
                      DateAt(T0 - 58),      \* Wednesday 12:00
                      DateAt(T0 - 53),      \* Wednesday 17:00
                      DateAt(T0 - 47),      \* Wednesday 23:00
                      DateAt(T0 - 40),      \* Thursday 06:00
                      DateAt(T0 - 41),      \* Thursday 05:00
                      DateAt(T0 - 143),     \* Saturday 23:00
                      DateAt(T0 - 130) } }  \* Sunday 12:00

\* three files with every history and the pull request varied together
MixedFiles ==
    { << PlainFile(n_util), PlainFile(n_app), PlainFile(n_lib) >>,
      << PlainFile(n_util), File(n_app, <<10>>, <<0>>, <<p_eval>>), PlainFile(n_lib) >>,
      << File(n_util, <<600>>, <<0>>, <<p_TOKEN>>),
         File(n_app, <<10>>, <<0>>, <<p_eval>>), PlainFile(n_lib) >> }

MixedInputs ==
    { Params(files, pr, commits, coverage, incidents, flake) :
        files \in MixedFiles,
        pr \in {QuietPR, UndatedPR},
        commits \in { <<>>,
                      Repeat(Commit(<<n_util, n_lib>>, ChurnEdge), 10) },
        coverage \in { [n \in {n_app, n_lib} |-> Coverage(R(9, 10))], <<>> },
        incidents \in { Repeat(Incident("INC-5", <<n_util>>, Recent), 2),
                        Repeat(Incident("INC-6", <<n_util, n_app, n_lib>>, IncidentEdge), 2) },
        flake \in { FlakeFrom([n \in {n_util, n_app} |-> "flaky"]),
                    FlakeFrom([n \in {n_util, n_app, n_lib} |-> "both"]) } }

InputSpace ==
    ChurnInputs \cup CoverageInputs \cup IncidentInputs \cup FlakeInputs
    \cup PaddedInputs \cup DiffInputs \cup TimeInputs \cup MixedInputs

-----------------------------------------------------------------------------
(* The state machine: a caller holds one pull request's inputs, the clock  *)
(* advances, and the caller runs analyzeRisk and exports the audit trace.  *)

Init ==
    /\ params \in InputSpace
    /\ now = T0
    /\ analysis = <<>>
    /\ exported = <<>>
    /\ patchText = <<>>
    /\ positions = <<>>
    /\ review = NoReview
    /\ nullArgs = {}
    /\ outcome = <<>>
    /\ paced = NoRun
    /\ ConfigAsShipped
    /\ ServicesIdle

\* time passes
Tick ==
    /\ now < T0 + MaxTicks
    /\ now' = now + 1
    /\ UNCHANGED <<params, analysis, exported>>
    /\ UNCHANGED <<diffVars, reviewVars, callVars, pacedVars>>
    /\ UNCHANGED <<configVars, serviceVars>>

\* the caller awaits analyzeRisk(params), having exported the trace of its
\* previous analysis; the agents run once, the two random values vary
AnalyzeRisk ==
    /\ analysis = <<>> \/ exported # <<>>
    /\ LET core == riskCore(params, now)
       IN  \E random1 \in RandomValues, random2 \in RandomValues :
              analysis' = << riskResult(core, params, now, random1, random2) >>
    /\ exported' = <<>>
    /\ UNCHANGED <<params, now>>
    /\ UNCHANGED <<diffVars, reviewVars, callVars, pacedVars>>
    /\ UNCHANGED <<configVars, serviceVars>>

\* the caller logs exportAuditTrace(riskAnalysis)
ExportAuditTrace ==
    /\ analysis # <<>>
    /\ exported = <<>>
    /\ exported' = << exportAuditTrace(analysis[1]) >>
    /\ UNCHANGED <<params, now, analysis>>
    /\ UNCHANGED <<diffVars, reviewVars, callVars, pacedVars>>
    /\ UNCHANGED <<configVars, serviceVars>>

Next == Tick \/ AnalyzeRisk \/ ExportAuditTrace

Spec == Init /\ [][Next]_vars

-----------------------------------------------------------------------------
(* The diff-position mapper: parseDiffPositions of api/webhook.js.  A      *)
(* patch is a string, a sequence of characters in which "\n" ends a line.  *)

\* String.prototype.startsWith
startsWith(s, p) == Len(p) <= Len(s) /\ \A j \in 1..Len(p) : s[j] = p[j]

\* p stands in s at index i
startsWithAt(s, i, p) ==
    i + Len(p) - 1 <= Len(s) /\ \A j \in 1..Len(p) : s[i + j - 1] = p[j]

\* String.prototype.split('\n')
RECURSIVE split(_)
split(s) ==
    IF \E i \in 1..Len(s) : s[i] = "\n"
    THEN LET i == CHOOSE k \in 1..Len(s) :
                    s[k] = "\n" /\ \A j \in 1..(k - 1) : s[j] # "\n"
         IN  << SubSeq(s, 1, i - 1) >> \o split(SubSeq(s, i + 1, Len(s)))
    ELSE << s >>

\* \d
isDigit(c) == \E k \in 1..Len(DigitChars) : DigitChars[k] = c

\* \d*: the index after the digits that stand in s from index i on
RECURSIVE digitsEnd(_, _)
digitsEnd(s, i) ==
    IF i <= Len(s) /\ isDigit(s[i]) THEN digitsEnd(s, i + 1) ELSE i

\* (?:,\d+)?: the index after the count that stands in s at index i, if one does
optionalCount(s, i) ==
    IF i <= Len(s) /\ s[i] = "," /\ digitsEnd(s, i + 1) > i + 1
    THEN digitsEnd(s, i + 1) ELSE i

\* a mutant of hunkMatch: the group is the old-file start line
hunkMatch_oldStart(line) ==
    IF ~startsWith(line, <<"@", "@", " ", "-">>) THEN <<>>
    ELSE
        LET oldEnd == digitsEnd(line, 5)
            oldCount == optionalCount(line, oldEnd)
            newStart == oldCount + 2
            newEnd == digitsEnd(line, newStart)
            newCount == optionalCount(line, newEnd)
        IN  IF /\ oldEnd > 5
               /\ startsWithAt(line, oldCount, <<" ", "+">>)
               /\ newEnd > newStart
               /\ startsWithAt(line, newCount, <<" ", "@", "@">>)
            THEN << SubSeq(line, 5, oldEnd - 1) >>
            ELSE <<>>

\* line.match(/^@@ -\d+(?:,\d+)? \+(\d+)(?:,\d+)? @@/): << group 1 >>, or
\* <<>> for null
hunkMatch(line) ==
    IF ~startsWith(line, <<"@", "@", " ", "-">>) THEN <<>>
    ELSE
        LET oldEnd == digitsEnd(line, 5)
            oldCount == optionalCount(line, oldEnd)
            newStart == oldCount + 2
            newEnd == digitsEnd(line, newStart)
            newCount == optionalCount(line, newEnd)
        IN  IF /\ oldEnd > 5
               /\ startsWithAt(line, oldCount, <<" ", "+">>)
               /\ newEnd > newStart
               /\ startsWithAt(line, newCount, <<" ", "@", "@">>)
            THEN << SubSeq(line, newStart, newEnd - 1) >>
            ELSE <<>>

\* const positions = {}
NoPositions == [line \in {} |-> 0]

\* a mutant of parseDiffLine: a hunk header does not advance diffPosition
parseDiffLine_headerNotCounted(st, line) ==
    LET diffPosition == st.diffPosition + 1
        match == hunkMatch(line)
    IN  IF match # <<>>
        THEN [st EXCEPT !.currentNewLine = digitsToNat(match[1]) - 1]
        ELSE IF ~startsWith(line, <<"-">>) /\ ~startsWith(line, <<"+">>)
        THEN [st EXCEPT !.diffPosition = diffPosition,
                        !.currentNewLine = st.currentNewLine + 1]
        ELSE IF startsWith(line, <<"+">>) /\ ~startsWith(line, <<"+", "+", "+">>)
        THEN [diffPosition |-> diffPosition,
              currentNewLine |-> st.currentNewLine + 1,
              positions |-> ((st.currentNewLine + 1) :> diffPosition) @@ st.positions]
        ELSE [st EXCEPT !.diffPosition = diffPosition]

\* the body of the for-loop of parseDiffPositions for one line
parseDiffLine(st, line) ==
    LET diffPosition == st.diffPosition + 1
        match == hunkMatch(line)
    IN  IF match # <<>>
        THEN [st EXCEPT !.diffPosition = diffPosition,
                        !.currentNewLine = digitsToNat(match[1]) - 1]
        ELSE IF ~startsWith(line, <<"-">>) /\ ~startsWith(line, <<"+">>)
        THEN [st EXCEPT !.diffPosition = diffPosition,
                        !.currentNewLine = st.currentNewLine + 1]
        ELSE IF startsWith(line, <<"+">>) /\ ~startsWith(line, <<"+", "+", "+">>)
        THEN [diffPosition |-> diffPosition,
              currentNewLine |-> st.currentNewLine + 1,
              positions |-> ((st.currentNewLine + 1) :> diffPosition) @@ st.positions]
        ELSE [st EXCEPT !.diffPosition = diffPosition]

\* the for-loop of parseDiffPositions over lines[1..k]
RECURSIVE parseDiffLoop(_, _)
parseDiffLoop(lines, k) ==
    IF k = 0 THEN [diffPosition |-> 0, currentNewLine |-> 0, positions |-> NoPositions]
    ELSE parseDiffLine(parseDiffLoop(lines, k - 1), lines[k])

\* how a call ends: it returns a value or throws
Returned(value) == [kind |-> "return", value |-> value]
Thrown(error) == [kind |-> "throw", error |-> error]

\* a mutant of parseDiffPositions: a patch without a hunk header is refused
parseDiffPositions_requiresHunk(optPatch) ==
    IF optPatch = <<>> THEN Thrown("TypeError")
    ELSE LET lines == split(optPatch[1])
         IN  IF \E k \in 1..Len(lines) : hunkMatch(lines[k]) # <<>>
             THEN Returned(parseDiffLoop(lines, Len(lines)).positions)
             ELSE Thrown("TypeError")

\* parseDiffPositions(patch); patch is <<text>>, or <<>> for undefined, on
\* which patch.split throws
parseDiffPositions(optPatch) ==
    IF optPatch = <<>> THEN Thrown("TypeError")
    ELSE LET lines == split(optPatch[1])
         IN  Returned(parseDiffLoop(lines, Len(lines)).positions)

-----------------------------------------------------------------------------
(* The patches the mapper is checked on.                                   *)

MaxPatchLines == 3   \* lines that follow the first line of a patch

l_hunk == <<"@","@"," ","-","1",",","2"," ","+","1",",","3"," ","@","@">>
l_hunk12 == <<"@","@"," ","-","7"," ","+","1","2"," ","@","@"," ","f","(",")">>
l_context == <<" ","c","o","n","t","e","x","t">>
l_added == <<"+","a","d","d","e","d">>
l_removed == <<"-","r","e","m","o","v","e","d">>
l_plusplus == <<"+","+","+","i",";">>
l_marker == <<"\\"," ","N","o"," ","n","e","w","l","i","n","e">>
l_badHunk == <<"@","@"," ","-","1"," ","+","x"," ","@","@">>
l_empty == <<>>

HunkLines == {l_hunk, l_hunk12}
PatchLines == HunkLines \cup {l_context, l_added, l_removed, l_plusplus, l_marker}

\* lines.join('\n')
RECURSIVE joinLines(_)
joinLines(lines) ==
    IF Len(lines) = 0 THEN <<>>
    ELSE IF Len(lines) = 1 THEN lines[1]
    ELSE lines[1] \o <<"\n">> \o joinLines(Tail(lines))

\* the sequences of at most n lines taken from S
RECURSIVE LinesUpTo(_, _)
LinesUpTo(S, n) ==
    IF n = 0 THEN { <<>> }
    ELSE LET shorter == LinesUpTo(S, n - 1)
         IN  shorter \cup { Append(ls, l) : ls \in shorter, l \in S }

\* patches made of hunks: a hunk header, then up to MaxPatchLines lines
HunkPatches ==
    { joinLines(<<h>> \o rest) : h \in HunkLines, rest \in LinesUpTo(PatchLines, MaxPatchLines) }

\* patches without a recognizable hunk header in front, the empty one among them
HeaderlessPatches ==
    { joinLines(ls) : ls \in LinesUpTo({l_badHunk, l_added, l_context, l_empty}, 2) }
    \cup { joinLines(<<l_added, l_hunk, l_added>>) }

PatchInputs == HunkPatches \cup HeaderlessPatches

\* a caller holds one patch text
PatchInit ==
    /\ patchText \in PatchInputs
    /\ positions = <<>>
    /\ params = Params(<<>>, QuietPR, <<>>, <<>>, <<>>, <<>>)
    /\ now = T0
    /\ analysis = <<>>
    /\ exported = <<>>
    /\ review = NoReview
    /\ nullArgs = {}
    /\ outcome = <<>>
    /\ paced = NoRun
    /\ ConfigAsShipped
    /\ ServicesIdle

\* the caller runs parseDiffPositions(patchText)
ParseDiffPositions ==
    /\ positions = <<>>
    /\ positions' = << parseDiffPositions(<< patchText >>) >>
    /\ UNCHANGED <<params, now, analysis, exported, patchText>>
    /\ UNCHANGED <<reviewVars, callVars, pacedVars>>
    /\ UNCHANGED <<configVars, serviceVars>>

PatchNext == ParseDiffPositions

PatchSpec == PatchInit /\ [][PatchNext]_vars

-----------------------------------------------------------------------------
(* api/webhook.js, scripts/testLocalReview.js: the inline comments of the  *)
(* model's review are turned into review comments and posted.              *)

\* the upper-case letter of each lower-case letter
UpperOf == [c \in {LowerCase[i] : i \in 1..Len(LowerCase)} |->
              UpperCase[CHOOSE i \in 1..Len(LowerCase) : LowerCase[i] = c]]

\* String.prototype.toUpperCase
toUpperCase(s) ==
    [i \in 1..Len(s) |-> IF s[i] \in DOMAIN UpperOf THEN UpperOf[s[i]] ELSE s[i]]

s_error == <<"e","r","r","o","r">>
s_warning == <<"w","a","r","n","i","n","g">>
s_suggestion == <<"s","u","g","g","e","s","t","i","o","n">>
s_info == <<"i","n","f","o">>
s_nit == <<"n","i","t">>

\* { 'error': ..., 'warning': ..., 'suggestion': ..., 'info': ... }[severity] || ...
\* for an optional severity; the emoji are named
severityEmoji(severity) ==
    IF severity = <<>> THEN "speech balloon"
    ELSE IF severity[1] = s_error THEN "red circle"
    ELSE IF severity[1] = s_warning THEN "warning sign"
    ELSE IF severity[1] = s_suggestion THEN "light bulb"
    ELSE IF severity[1] = s_info THEN "information"
    ELSE "speech balloon"

\* if (file.patch): a patch that is there and is not the empty string
hasPatch(file) == file.patch # <<>> /\ file.patch[1] # <<>>

\* the last of the code files named `name` that has a patch
lastPatched(codeFiles, name) ==
    CHOOSE i \in 1..Len(codeFiles) :
        /\ codeFiles[i].filename = name
        /\ hasPatch(codeFiles[i])
        /\ \A j \in (i + 1)..Len(codeFiles) :
              ~(codeFiles[j].filename = name /\ hasPatch(codeFiles[j]))

\* for (const file of codeFiles)
\*   if (file.patch) diffPositionMap[file.filename] = parseDiffPositions(file.patch)
buildDiffPositionMap(codeFiles) ==
    [name \in {codeFiles[i].filename :
                  i \in {j \in 1..Len(codeFiles) : hasPatch(codeFiles[j])}} |->
        parseDiffPositions(codeFiles[lastPatched(codeFiles, name)].patch).value]

\* the loop over inlineComments, the first k comments done: the review
\* comments pushed, or the TypeError of toUpperCase() of a severity that is
\* not there
RECURSIVE reviewCommentLoop(_, _, _)
reviewCommentLoop(diffPositionMap, inlineComments, k) ==
    IF k = 0 THEN Returned(<<>>)
    ELSE LET before == reviewCommentLoop(diffPositionMap, inlineComments, k - 1)
             comment == inlineComments[k]
         IN  IF before.kind = "throw" THEN before
             ELSE IF comment.file \notin DOMAIN diffPositionMap THEN before
             ELSE IF comment.line \notin DOMAIN diffPositionMap[comment.file]
                  THEN before
             ELSE IF comment.severity = <<>> THEN Thrown("TypeError")
             ELSE Returned(Append(before.value,
                      [path |-> comment.file,
                       position |-> diffPositionMap[comment.file][comment.line],
                       body |-> [emoji |-> severityEmoji(comment.severity),
                                 severity |-> toUpperCase(comment.severity[1]),
                                 comment |-> comment.comment]]))

\* the handler from the position map to its response: a review with the
\* inline comments, a summary comment when no comment has a position, and
\* status 500 with nothing posted when the conversion throws
handler(codeFiles, inlineComments) ==
    LET diffPositionMap == buildDiffPositionMap(codeFiles)
        converted == reviewCommentLoop(diffPositionMap, inlineComments,
                                       Len(inlineComments))
    IN  IF converted.kind = "throw"
        THEN [status |-> 500, posted |-> "nothing", comments |-> <<>>]
        ELSE IF Len(converted.value) > 0
        THEN [status |-> 200, posted |-> "review", comments |-> converted.value]
        ELSE [status |-> 200, posted |-> "summary", comments |-> <<>>]

-----------------------------------------------------------------------------
(* The reviews checked.                                                    *)

MaxComments == 2    \* how many inline comments a review has

p_example == joinLines(<<l_hunk, l_context, l_added, l_removed>>)
p_twoAdded == joinLines(<<l_hunk12, l_added, l_added>>)

CodeFile(name, patch) == [filename |-> name, patch |-> patch]

\* util.js: line 2 at position 3; app.js: lines 12 and 13 at positions 2 and
\* 3; lib.js comes without a patch, or with an empty one
CodeFileLists ==
    { <<CodeFile(n_util, <<p_example>>), CodeFile(n_app, <<p_twoAdded>>)>>,
      <<CodeFile(n_app, <<p_twoAdded>>), CodeFile(n_lib, <<>>),
        CodeFile(n_util, <<p_example>>)>>,
      <<CodeFile(n_lib, << <<>> >>), CodeFile(n_util, <<p_example>>)>> }

InlineComment(file, line, severity, comment) ==
    [file |-> file, line |-> line, severity |-> severity, comment |-> comment]

\* comments on files of the pull request and on a file that is not in it, on
\* added lines and on other lines, with a severity and without
Comments ==
    {InlineComment(file, line, <<s_warning>>, "c") :
        file \in {n_util, n_app, n_lib, n_pay}, line \in {2, 12}}
    \cup {InlineComment(n_util, 2, <<>>, "c"), InlineComment(n_app, 2, <<>>, "c"),
          InlineComment(n_app, 13, <<s_nit>>, "d"),
          InlineComment(n_pay, 12, <<>>, "d")}

RECURSIVE CommentLists(_)
CommentLists(n) ==
    IF n = 0 THEN {<<>>}
    ELSE CommentLists(n - 1) \cup
         {Append(l, c) : l \in {x \in CommentLists(n - 1) : Len(x) = n - 1},
                         c \in Comments}

\* the handler has the code files and the parsed review of the model
ReviewInit ==
    /\ review \in {[codeFiles |-> files, inlineComments |-> comments,
                    response |-> <<>>] :
                      files \in CodeFileLists,
                      comments \in CommentLists(MaxComments)}
    /\ params = Params(<<>>, QuietPR, <<>>, <<>>, <<>>, <<>>)
    /\ now = T0
    /\ analysis = <<>>
    /\ exported = <<>>
    /\ patchText = <<>>
    /\ positions = <<>>
    /\ nullArgs = {}
    /\ outcome = <<>>
    /\ paced = NoRun
    /\ ConfigAsShipped
    /\ ServicesIdle

\* the handler converts the comments and posts
PostReview ==
    /\ review.response = <<>>
    /\ review' = [review EXCEPT
                    !.response = << handler(review.codeFiles, review.inlineComments) >>]
    /\ UNCHANGED <<params, now, analysis, exported, patchText, positions>>
    /\ UNCHANGED <<callVars, pacedVars>>
    /\ UNCHANGED <<configVars, serviceVars>>

ReviewNext == PostReview

ReviewSpec == ReviewInit /\ [][ReviewNext]_vars

-----------------------------------------------------------------------------
(* lib/riskAnalysis.js with arguments that make a calculator throw.  A     *)
(* default of the destructuring or of a parameter stands in for undefined  *)
(* only: a member passed as null reaches the calculator as null, and the   *)
(* calculator throws a TypeError where it first dereferences it.           *)

\* the member of params each calculator reads besides files
DatasetOf ==
    [churn |-> "commitHistory", coverage_gap |-> "coverageData",
     incident_hotspot |-> "incidentHistory", flake_proximity |-> "flakeData",
     diff_risk |-> "none", time_pressure |-> "pullRequest"]

\* whether the calculator throws: the four with a dataset dereference it
\* once per file, calculateTimePressure reads pullRequest.created_at
\* at once, calculateDiffRisk reads no member of pullRequest
calculatorThrows(name, p, nulls) ==
    IF name = "time_pressure" THEN "pullRequest" \in nulls
    ELSE IF name = "diff_risk" THEN FALSE
    ELSE DatasetOf[name] \in nulls /\ Len(p.files) > 0

\* await analyzeRisk(params): nothing in analyzeRisk catches, the first
\* calculator that throws rejects the call; a null dataset that is never
\* dereferenced (no files) leaves the results those of an empty one
analyzeRiskCall(p, nulls, clock, random1, random2) ==
    IF \E k \in 1..Len(SignalNames) : calculatorThrows(SignalNames[k], p, nulls)
    THEN Thrown("TypeError")
    ELSE Returned(analyzeRisk(p, clock, random1, random2))

\* the arguments: some of the mixed inputs and a pull request without files,
\* with at most one member passed as null; params holds the other members,
\* and an empty dataset in the place of a null one
FaultInputs ==
    {p \in MixedInputs : p.pullRequest = QuietPR}
        \cup {Params(<<>>, QuietPR, <<>>, <<>>, <<>>, <<>>)}

NullChoices ==
    {{}, {"commitHistory"}, {"coverageData"}, {"incidentHistory"},
     {"flakeData"}, {"pullRequest"}}

nulled(p, nulls) ==
    [p EXCEPT !.commitHistory = IF "commitHistory" \in nulls THEN <<>> ELSE @,
              !.coverageData = IF "coverageData" \in nulls THEN <<>> ELSE @,
              !.incidentHistory = IF "incidentHistory" \in nulls THEN <<>> ELSE @,
              !.flakeData = IF "flakeData" \in nulls THEN <<>> ELSE @]

FaultInit ==
    /\ nullArgs \in NullChoices
    /\ \E p \in FaultInputs : params = nulled(p, nullArgs)
    /\ outcome = <<>>
    /\ now = T0
    /\ analysis = <<>>
    /\ exported = <<>>
    /\ patchText = <<>>
    /\ positions = <<>>
    /\ review = NoReview
    /\ paced = NoRun
    /\ ConfigAsShipped
    /\ ServicesIdle

\* the caller awaits analyzeRisk(params) in a try block
CallAnalyzeRisk ==
    /\ outcome = <<>>
    /\ \E random1 \in RandomValues, random2 \in RandomValues :
          outcome' = << analyzeRiskCall(params, nullArgs, now, random1, random2) >>
    /\ UNCHANGED <<params, now, analysis, exported, nullArgs>>
    /\ UNCHANGED <<diffVars, reviewVars, pacedVars>>
    /\ UNCHANGED <<configVars, serviceVars>>

FaultNext == CallAnalyzeRisk

FaultSpec == FaultInit /\ [][FaultNext]_vars

-----------------------------------------------------------------------------
(* lib/dashboardLogger.js: the paced analyzeRisk.  The agents run one      *)
(* after the other; before and after each the function awaits a log send,  *)
(* and between two agents a delay of 5 to 9 seconds, during which the      *)
(* clock moves on.                                                         *)

\* the calculator call of the agent `name`, the clock reading `clock`
agentSignal(name, p, clock) ==
    CASE name = "churn" -> calculateChurn(p.files, p.commitHistory, clock)
      [] name = "coverage_gap" -> calculateCoverageGap(p.files, p.coverageData)
      [] name = "incident_hotspot" ->
            calculateIncidentHotspot(p.files, p.incidentHistory, clock)
      [] name = "flake_proximity" -> calculateFlakeProximity(p.files, p.flakeData)
      [] name = "diff_risk" -> calculateDiffRisk(p.files, p.pullRequest)
      [] name = "time_pressure" -> calculateTimePressure(p.pullRequest, clock)

\* buildRiskSummary of the paced variant: the parts of the text that vary
pacedRiskSummary(score, level, emoji, signals, mitigations) ==
    [header |-> [emoji |-> emoji, level |-> level, score |-> round(score)],
     rows |->
        [k \in 1..Len(SignalNames) |->
            LET signal == signals[SignalNames[k]]
            IN  [name |-> SignalNames[k],
                 weight |-> weights[SignalNames[k]],
                 score |-> signal.score,
                 status |-> IF RGe(signal.score, R(5, 10)) THEN "High"
                            ELSE IF RGe(signal.score, R(3, 10)) THEN "Medium"
                            ELSE "Low",
                 explanation |-> signal.explanation]],
     mitigations |->
        [k \in 1..Len(mitigations) |->
            [signal |-> mitigations[k].signal,
             score |-> mitigations[k].score,
             suggestions |-> slice0(mitigations[k].suggestions, 2),
             citation |-> slice0(mitigations[k].citations, 1)]]]

\* the paced analyzeRisk from the weighted sum on: score, level, mitigations,
\* audit trace and the returned record; `clock` is read when the trace is built
pacedResult(signals, p, startTime, traceId, clock) ==
    LET riskScore == weightedSum(signals)
        riskLevel == getRiskLevel(riskScore)
        riskEmoji == getRiskEmoji(riskLevel)
        mitigations == generateMitigations(signals)
        auditTrace ==
            [traceId |-> traceId,
             timestamp |-> clock,
             executionTimeMs |-> clock - startTime,
             pullRequest |->
                [number |-> p.pullRequest.number,
                 title |-> p.pullRequest.title,
                 author |-> p.pullRequest.user],
             filesAnalyzed |-> Len(p.files),
             formula |-> "R = w1*churn + w2*coverage_gap + w3*incident_hotspot + w4*flake_proximity + w5*diff_risk + w6*time_pressure",
             weights |-> weights,
             signals |->
                [s \in DOMAIN signals |->
                    [score |-> signals[s].score,
                     explanation |-> signals[s].explanation,
                     citationCount |-> Len(signals[s].citations)]],
             finalScore |-> round(riskScore),
             riskLevel |-> riskLevel,
             mitigationCount |-> Len(mitigations)]
    IN  [score |-> round(riskScore),
         level |-> riskLevel,
         emoji |-> riskEmoji,
         signals |-> signals,
         mitigations |-> mitigations,
         auditTrace |-> auditTrace,
         summary |-> pacedRiskSummary(riskScore, riskLevel, riskEmoji, signals,
                                      mitigations)]

\* the arguments of the paced analyses checked
PacedInputs == MixedInputs

PacedInit ==
    /\ params \in PacedInputs
    /\ now = T0
    /\ paced = NoRun
    /\ ConfigAsShipped
    /\ ServicesIdle
    /\ analysis = <<>>
    /\ exported = <<>>
    /\ patchText = <<>>
    /\ positions = <<>>
    /\ review = NoReview
    /\ nullArgs = {}
    /\ outcome = <<>>

\* the call begins: startTime, traceId
PacedStart ==
    /\ paced.pc = 0
    /\ \E random \in RandomValues :
          paced' = [paced EXCEPT !.pc = 1, !.startTime = now,
                                 !.traceId = generateTraceId(now, random)]
    /\ UNCHANGED <<params, now, analysis, exported>>
    /\ UNCHANGED <<diffVars, reviewVars, callVars>>
    /\ UNCHANGED <<configVars, serviceVars>>

\* time passes while the function awaits a log send or a delay
PacedAwait ==
    /\ paced.pc \in 1..(Len(SignalNames) + 1)
    /\ now < T0 + MaxTicks
    /\ now' = now + 1
    /\ UNCHANGED <<params, analysis, exported, paced>>
    /\ UNCHANGED <<diffVars, reviewVars, callVars>>
    /\ UNCHANGED <<configVars, serviceVars>>

\* the next agent runs: signals.<name> = calculate...(...)
PacedAgent ==
    /\ paced.pc \in 1..Len(SignalNames)
    /\ LET name == SignalNames[paced.pc]
       IN  paced' = [paced EXCEPT
                        !.pc = @ + 1,
                        !.signals = (name :> agentSignal(name, params, now)) @@ @]
    /\ UNCHANGED <<params, now, analysis, exported>>
    /\ UNCHANGED <<diffVars, reviewVars, callVars>>
    /\ UNCHANGED <<configVars, serviceVars>>

\* the weighted sum, the level, the mitigations, the trace, the return
PacedReturn ==
    /\ paced.pc = Len(SignalNames) + 1
    /\ paced' = [paced EXCEPT
                    !.pc = @ + 1,
                    !.result = << pacedResult(paced.signals, params, paced.startTime,
                                              paced.traceId, now) >>]
    /\ UNCHANGED <<params, now, analysis, exported>>
    /\ UNCHANGED <<diffVars, reviewVars, callVars>>
    /\ UNCHANGED <<configVars, serviceVars>>

PacedNext == PacedStart \/ PacedAwait \/ PacedAgent \/ PacedReturn

PacedSpec == PacedInit /\ [][PacedNext]_vars

-----------------------------------------------------------------------------
(* lib/riskConfig.js, lib/riskAnalysis.js: analyzeRisk under a RISK_CONFIG *)
(* whose weights were edited.  validateWeights() warns on the console and  *)
(* returns false when the weights do not sum to 1.0; analyzeRisk calls it  *)
(* and drops what it returns.                                              *)

\* console.warn of validateWeights: the sum it mentions
warnedBy(w, warnings) ==
    IF validateWeightsOf(w) THEN warnings
    ELSE Append(warnings, sumWeightsOf(w, Len(SignalNames)))

WeightsWith(diff_risk) == [weights EXCEPT !.diff_risk = diff_risk]

\* the weights of the repository, and weights that sum to 1.0005, 0.9995,
\* 1.002, 0.998, 2 and 0.75
WeightChoices ==
    {WeightsWith(x) : x \in {R(25, 100), R(2505, 10000), R(2495, 10000),
                             R(252, 1000), R(248, 1000), R(125, 100), Zero}}

ConfigInputs == {p \in MixedInputs : p.pullRequest = QuietPR}

ConfigInit ==
    /\ config \in {RiskConfig(w) : w \in WeightChoices}
    /\ weightCheck = NoCheck
    /\ params \in ConfigInputs
    /\ now = T0
    /\ analysis = <<>>
    /\ exported = <<>>
    /\ patchText = <<>>
    /\ positions = <<>>
    /\ review = NoReview
    /\ nullArgs = {}
    /\ outcome = <<>>
    /\ paced = NoRun
    /\ ServicesIdle

\* a caller runs validateWeights()
ValidateWeights ==
    /\ weightCheck.returned = <<>>
    /\ weightCheck' = [returned |-> << validateWeightsOf(config.weights) >>,
                       warnings |-> warnedBy(config.weights, weightCheck.warnings)]
    /\ UNCHANGED <<params, now, analysis, exported, config>>
    /\ UNCHANGED <<diffVars, reviewVars, callVars, pacedVars, serviceVars>>

\* a mutant of ConfiguredAnalyzeRisk: weights that fail the validation are
\* put back to the shipped ones, in RISK_CONFIG itself
ConfiguredAnalyzeRisk_repairsWeights ==
    /\ analysis = <<>>
    /\ LET w == config.weights
           core == riskCoreWith(w, params, now)
       IN  \E random1 \in RandomValues, random2 \in RandomValues :
              analysis' = << riskResultWith(w, core, params, now, random1, random2) >>
    /\ weightCheck' = [weightCheck EXCEPT
                          !.warnings = warnedBy(config.weights, @)]
    /\ config' = IF validateWeightsOf(config.weights) THEN config
                 ELSE [config EXCEPT !.weights = weights]
    /\ UNCHANGED <<params, now, exported>>
    /\ UNCHANGED <<diffVars, reviewVars, callVars, pacedVars, serviceVars>>

\* the caller awaits analyzeRisk(params): validateWeights(), the agents, the
\* weighted sum with RISK_CONFIG.weights as they are
ConfiguredAnalyzeRisk ==
    /\ analysis = <<>>
    /\ LET w == config.weights
           core == riskCoreWith(w, params, now)
       IN  \E random1 \in RandomValues, random2 \in RandomValues :
              analysis' = << riskResultWith(w, core, params, now, random1, random2) >>
    /\ weightCheck' = [weightCheck EXCEPT
                          !.warnings = warnedBy(config.weights, @)]
    /\ UNCHANGED <<params, now, exported, config>>
    /\ UNCHANGED <<diffVars, reviewVars, callVars, pacedVars, serviceVars>>

ConfigNext == ValidateWeights \/ ConfiguredAnalyzeRisk

ConfigSpec == ConfigInit /\ [][ConfigNext]_vars

-----------------------------------------------------------------------------
(* lib/embeddings.js: the embedding pipeline kept in the module variable   *)
(* `embedder`.  initEmbedder, createEmbedding and createEmbeddings are     *)
(* async; a call runs until an await, where other calls may run.           *)

EmbedderFunctions == {"initEmbedder", "createEmbedding", "createEmbeddings"}

\* initEmbedder up to its await: the existing embedder is returned, or
\* pipeline() is called and the call waits for it; the instance that a call
\* of pipeline() constructs is named by the number of the call
enterInitEmbedder(e, c, fn) ==
    IF e.instance # <<>>
    THEN [e EXCEPT !.callers[c] = [fn |-> fn, pc |-> "hasModel", model |-> e.instance]]
    ELSE [e EXCEPT !.pipelineCalls = @ + 1,
                   !.callers[c] = [fn |-> fn, pc |-> "awaitPipeline",
                                   model |-> << e.pipelineCalls + 1 >>]]

\* embedder = await pipeline(...); return embedder
resumeInitEmbedder(e, c) ==
    [e EXCEPT !.instance = e.callers[c].model,
              !.callers[c].pc = "hasModel"]

EmbedderInit ==
    /\ embedder = NoEmbedder
    /\ params = Params(<<>>, QuietPR, <<>>, <<>>, <<>>, <<>>)
    /\ now = T0
    /\ analysis = <<>>
    /\ exported = <<>>
    /\ patchText = <<>>
    /\ positions = <<>>
    /\ review = NoReview
    /\ nullArgs = {}
    /\ outcome = <<>>
    /\ paced = NoRun
    /\ ConfigAsShipped
    /\ hook = NoRequest
    /\ logger = NoLogger
    /\ store = NoStore

\* a caller calls initEmbedder, createEmbedding or createEmbeddings
CallEmbedder ==
    /\ \E c \in 1..MaxCallers, fn \in EmbedderFunctions :
          /\ embedder.callers[c].pc = "idle"
          /\ embedder' = enterInitEmbedder(embedder, c, fn)
    /\ UNCHANGED <<params, now, analysis, exported, hook, logger, store>>
    /\ UNCHANGED <<diffVars, reviewVars, callVars, pacedVars, configVars>>

\* the pipeline() of a waiting call resolves
PipelineResolves ==
    /\ \E c \in 1..MaxCallers :
          /\ embedder.callers[c].pc = "awaitPipeline"
          /\ embedder' = resumeInitEmbedder(embedder, c)
    /\ UNCHANGED <<params, now, analysis, exported, hook, logger, store>>
    /\ UNCHANGED <<diffVars, reviewVars, callVars, pacedVars, configVars>>

\* the call goes on with the model it was given: initEmbedder returns it,
\* createEmbedding and createEmbeddings run it on their texts and return
UseModel ==
    /\ \E c \in 1..MaxCallers :
          /\ embedder.callers[c].pc = "hasModel"
          /\ embedder' = [embedder EXCEPT !.callers[c].pc = "done"]
    /\ UNCHANGED <<params, now, analysis, exported, hook, logger, store>>
    /\ UNCHANGED <<diffVars, reviewVars, callVars, pacedVars, configVars>>

EmbedderNext == CallEmbedder \/ PipelineResolves \/ UseModel

EmbedderSpec == EmbedderInit /\ [][EmbedderNext]_vars

-----------------------------------------------------------------------------
(* api/dashboard.js (QUICK_START.md): the in-memory store of the dashboard *)
(* endpoint and the requests that add to it.                               *)

LogLimit == 500
ReviewLimit == 50

MaxLogRequests == 502       \* add-log requests that reach addLog
MaxReviewRequests == 52     \* add-review requests that reach addReview

\* Array.prototype.slice(-n)
sliceLast(arr, n) ==
    IF Len(arr) <= n THEN arr ELSE SubSeq(arr, Len(arr) - n + 1, Len(arr))

\* x || fallback, for a field of the request body that may be missing
fieldOr(body, name, fallback) ==
    IF name \in DOMAIN body THEN body[name] ELSE fallback

addLog_keepsOldest(logs, logEntry, clock) ==
    LET pushed == Append(logs, [timestamp |-> clock,
                                level |-> fieldOr(logEntry, "level", "INFO"),
                                source |-> fieldOr(logEntry, "source", "webhook"),
                                message |-> logEntry.message])
    IN  IF Len(pushed) > LogLimit THEN SubSeq(pushed, 1, LogLimit) ELSE pushed

addLog(logs, logEntry, clock) ==
    LET pushed == Append(logs, [timestamp |-> clock,
                                level |-> fieldOr(logEntry, "level", "INFO"),
                                source |-> fieldOr(logEntry, "source", "webhook"),
                                message |-> logEntry.message])
    IN  IF Len(pushed) > LogLimit THEN sliceLast(pushed, LogLimit) ELSE pushed

addReview(reviews, r, clock) ==
    LET pushed == Append(reviews, [repo |-> r.repo,
                                   prNumber |-> r.prNumber,
                                   riskScore |-> r.riskScore,
                                   author |-> r.author,
                                   comments |-> fieldOr(r, "comments", 0),
                                   timestamp |-> clock])
    IN  IF Len(pushed) > ReviewLimit THEN sliceLast(pushed, ReviewLimit) ELSE pushed

\* the endpoint's handler on the requests that add to the store; a request
\* is [method, action, body], body <<>> when the request has none, which
\* makes addLog and addReview throw on their first property read, before
\* the push; the switch is inside try, its catch answers 500
dashboardHandler(st, req, clock) ==
    IF req.method = "OPTIONS" THEN [st EXCEPT !.status = 200]
    ELSE IF req.action = "add-log"
    THEN IF req.method # "POST" THEN [st EXCEPT !.status = 405]
         ELSE IF req.body = <<>> THEN [st EXCEPT !.status = 500]
         ELSE [st EXCEPT !.logs = addLog(st.logs, req.body[1], clock),
                         !.logsAdded = @ + 1,
                         !.status = 200]
    ELSE IF req.action = "add-review"
    THEN IF req.method # "POST" THEN [st EXCEPT !.status = 405]
         ELSE IF req.body = <<>> THEN [st EXCEPT !.status = 500]
         ELSE [st EXCEPT !.reviews = addReview(st.reviews, req.body[1], clock),
                         !.reviewsAdded = @ + 1,
                         !.status = 200]
    ELSE IF req.action = "clear-logs"
    THEN [st EXCEPT !.logs = <<>>, !.status = 200]
    ELSE [st EXCEPT !.status = 400]

\* the n-th entry sent to add-log and the n-th review sent to add-review
LogBody(n) == [message |-> n]
ReviewBody(n) ==
    [repo |-> "acme/shop", prNumber |-> n, riskScore |-> 40, author |-> "dev"]

StoreInit ==
    /\ store = NoStore
    /\ params = Params(<<>>, QuietPR, <<>>, <<>>, <<>>, <<>>)
    /\ now = T0
    /\ analysis = <<>>
    /\ exported = <<>>
    /\ patchText = <<>>
    /\ positions = <<>>
    /\ review = NoReview
    /\ nullArgs = {}
    /\ outcome = <<>>
    /\ paced = NoRun
    /\ ConfigAsShipped
    /\ hook = NoRequest
    /\ logger = NoLogger
    /\ embedder = NoEmbedder

\* POST ?action=add-log with an entry
AddLogRequest ==
    /\ store.logsAdded < MaxLogRequests
    /\ store' = dashboardHandler(store,
                    [method |-> "POST", action |-> "add-log",
                     body |-> << LogBody(store.logsAdded + 1) >>], now)
    /\ UNCHANGED <<params, now, analysis, exported, hook, logger, embedder>>
    /\ UNCHANGED <<diffVars, reviewVars, callVars, pacedVars, configVars>>

\* POST ?action=add-review with a review
AddReviewRequest ==
    /\ store.reviewsAdded < MaxReviewRequests
    /\ store' = dashboardHandler(store,
                    [method |-> "POST", action |-> "add-review",
                     body |-> << ReviewBody(store.reviewsAdded + 1) >>], now)
    /\ UNCHANGED <<params, now, analysis, exported, hook, logger, embedder>>
    /\ UNCHANGED <<diffVars, reviewVars, callVars, pacedVars, configVars>>

\* an add-log or add-review request that is not a POST, or has no body
RefusedRequest ==
    /\ \E action \in {"add-log", "add-review"},
          shape \in {[method |-> "GET", body |-> <<>>],
                     [method |-> "OPTIONS", body |-> <<>>],
                     [method |-> "POST", body |-> <<>>]} :
          store' = dashboardHandler(store,
                      [method |-> shape.method, action |-> action,
                       body |-> shape.body], now)
    /\ UNCHANGED <<params, now, analysis, exported, hook, logger, embedder>>
    /\ UNCHANGED <<diffVars, reviewVars, callVars, pacedVars, configVars>>

StoreNext == AddLogRequest \/ AddReviewRequest \/ RefusedRequest

StoreSpec == StoreInit /\ [][StoreNext]_vars

-----------------------------------------------------------------------------
(* lib/dashboardLogger.js: the log buffer and its flush to the dashboard.  *)
(* A dashboard URL is configured and every fetch resolves.                 *)

logBuffer(L) == L.arrays[Len(L.arrays)]

\* log(source, message, level): the entry is named by its number
log(L) ==
    [L EXCEPT !.arrays[Len(L.arrays)] = Append(@, L.logged + 1),
              !.logged = @ + 1]

\* setReview(data)
setReview(L, data) == [L EXCEPT !.reviewData = << data >>]

\* clearBuffer(): logBuffer = []; reviewData = null
clearBuffer(L) ==
    [L EXCEPT !.arrays = Append(@, <<>>),
              !.reviewData = <<>>]

\* flushToDashboard from the i-th step of its for-of loop over the array arr
\* up to the next await: the fetch of the i-th entry, or after the loop the
\* fetch of the review, or with nothing left to send clearBuffer() and return
flushFrom(L, f, arr, i) ==
    IF i <= Len(L.arrays[arr])
    THEN [L EXCEPT !.posted = @ \cup {L.arrays[arr][i]},
                   !.flushes[f] = [pc |-> "awaitLog", arr |-> arr, i |-> i]]
    ELSE IF L.reviewData # <<>>
    THEN [L EXCEPT !.reviewsPosted = @ + 1,
                   !.flushes[f] = [pc |-> "awaitReview", arr |-> arr, i |-> i]]
    ELSE [clearBuffer(L) EXCEPT !.flushes[f] = [pc |-> "done", arr |-> arr, i |-> i]]

\* the fetch a flush waits for resolves
flushResume(L, f) ==
    IF L.flushes[f].pc = "awaitLog"
    THEN flushFrom(L, f, L.flushes[f].arr, L.flushes[f].i + 1)
    ELSE [clearBuffer(L) EXCEPT !.flushes[f].pc = "done"]

LoggerInit ==
    /\ logger = NoLogger
    /\ params = Params(<<>>, QuietPR, <<>>, <<>>, <<>>, <<>>)
    /\ now = T0
    /\ analysis = <<>>
    /\ exported = <<>>
    /\ patchText = <<>>
    /\ positions = <<>>
    /\ review = NoReview
    /\ nullArgs = {}
    /\ outcome = <<>>
    /\ paced = NoRun
    /\ ConfigAsShipped
    /\ hook = NoRequest
    /\ embedder = NoEmbedder
    /\ store = NoStore

\* a request calls log()
Log ==
    /\ logger.logged < MaxLogs
    /\ logger' = log(logger)
    /\ UNCHANGED <<params, now, analysis, exported, hook, embedder, store>>
    /\ UNCHANGED <<diffVars, reviewVars, callVars, pacedVars, configVars>>

\* a request calls setReview()
SetReview ==
    /\ logger.reviewData = <<>>
    /\ logger.reviewsPosted = 0
    /\ logger' = setReview(logger, "review")
    /\ UNCHANGED <<params, now, analysis, exported, hook, embedder, store>>
    /\ UNCHANGED <<diffVars, reviewVars, callVars, pacedVars, configVars>>

\* a request calls flushToDashboard(dashboardUrl)
FlushToDashboard ==
    /\ \E f \in 1..MaxFlushes :
          /\ logger.flushes[f].pc = "idle"
          /\ logger' = flushFrom(logger, f, Len(logger.arrays), 1)
    /\ UNCHANGED <<params, now, analysis, exported, hook, embedder, store>>
    /\ UNCHANGED <<diffVars, reviewVars, callVars, pacedVars, configVars>>

\* the fetch of a suspended flush resolves and the flush goes on
FetchResolves ==
    /\ \E f \in 1..MaxFlushes :
          /\ logger.flushes[f].pc \in {"awaitLog", "awaitReview"}
          /\ logger' = flushResume(logger, f)
    /\ UNCHANGED <<params, now, analysis, exported, hook, embedder, store>>
    /\ UNCHANGED <<diffVars, reviewVars, callVars, pacedVars, configVars>>

LoggerNext == Log \/ SetReview \/ FlushToDashboard \/ FetchResolves

LoggerSpec == LoggerInit /\ [][LoggerNext]_vars

-----------------------------------------------------------------------------
(* api/webhook.js: the handler of a GitHub webhook request, from one await *)
(* of a call that can fail to the next.  hook.calls are the services and  *)
(* functions called so far; hook.response is the answer given, with the    *)
(* status and the members of its JSON body.                                *)

endsWith(s, suffix) ==
    /\ Len(suffix) <= Len(s)
    /\ \A j \in 1..Len(suffix) : s[Len(s) - Len(suffix) + j] = suffix[j]

\* /\.(png|jpg|jpeg|gif|svg|ico|lock|min\.js)$/
assetSuffixes ==
    { <<".","p","n","g">>, <<".","j","p","g">>, <<".","j","p","e","g">>,
      <<".","g","i","f">>, <<".","s","v","g">>, <<".","i","c","o">>,
      <<".","l","o","c","k">>, <<".","m","i","n",".","j","s">> }

isCodeFile(file) ==
    /\ file.status # "removed"
    /\ file.changes < 500
    /\ ~ \E x \in assetSuffixes : endsWith(file.filename, x)

RECURSIVE filterFiles(_, _, _)
filterFiles(files, k, kind) ==
    IF k = 0 THEN <<>>
    ELSE LET rest == filterFiles(files, k - 1, kind)
             keep == IF kind = "code" THEN isCodeFile(files[k]) ELSE hasPatch(files[k])
         IN  IF keep THEN Append(rest, files[k]) ELSE rest

\* files.filter(status, changes, filename)
codeFilesOf(files) == filterFiles(files, Len(files), "code")

\* codeFiles.filter(file => file.patch).map(...)
validFilesOf(codeFiles) ==
    LET patched == filterFiles(codeFiles, Len(codeFiles), "patch")
    IN  [k \in 1..Len(patched) |->
            [filename |-> patched[k].filename, status |-> patched[k].status,
             additions |-> patched[k].additions, deletions |-> patched[k].deletions,
             patch |-> patched[k].patch]]

\* res.status(status).json(body)
Answered(h, status, body) ==
    [h EXCEPT !.pc = "responded", !.response = << [status |-> status, body |-> body] >>]

\* the catch of the handler's try: a log to the dashboard and a 500
Failed(h, error) ==
    Answered([h EXCEPT !.calls = @ \cup {"dashboard"}], 500,
             [error |-> "Failed to process review", details |-> error])

\* lines 64-88: the checks of the request, before the try; a request is
\* [method, event, body], body <<>> when the request has none, and its
\* members action, pull_request and repository <<>> when missing.  What is
\* thrown here is not caught by the handler: it returns a rejected promise
\* and has given no answer
receive(h, req) ==
    LET got == [h EXCEPT !.request = << req >>]
    IN  IF req.method # "POST"
        THEN Answered(got, 405, [error |-> "Method not allowed"])
        ELSE IF req.event # "pull_request"
        THEN Answered(got, 200, [message |-> "Not a PR event"])
        ELSE IF req.body = <<>>
        THEN [got EXCEPT !.pc = "threw"]
        ELSE IF req.body[1].action \notin { <<"opened">>, <<"synchronize">> }
        THEN Answered(got, 200, [message |-> "No action needed"])
        ELSE IF req.body[1].pull_request = <<>> \/ req.body[1].repository = <<>>
        THEN [got EXCEPT !.pc = "threw"]
        ELSE [got EXCEPT !.pc = "listFiles", !.calls = @ \cup {"dashboard"}]

\* lines 90-146: octokit.pulls.listFiles and the two filters
listedFiles(h, listed) ==
    LET called == [h EXCEPT !.calls = @ \cup {"dashboard", "github.listFiles"}]
    IN  IF listed.kind = "throw" THEN Failed(called, listed.error)
        ELSE IF Len(codeFilesOf(listed.value)) = 0
        THEN Answered(called, 200, [message |-> "No code files to review"])
        ELSE [called EXCEPT !.pc = "risk",
                            !.codeFiles = codeFilesOf(listed.value),
                            !.validFiles = validFilesOf(codeFilesOf(listed.value))]

riskAnalysed_rethrows(h, risk) ==
    LET called == [h EXCEPT !.calls = @ \cup {"dashboard", "analyzeRisk"}]
    IN  IF risk.kind = "throw"
        THEN Failed([called EXCEPT !.riskError = << risk.error >>], risk.error)
        ELSE [called EXCEPT !.pc = "context", !.riskAnalysis = << risk.value >>]

\* lines 148-171: let riskAnalysis = null; try { riskAnalysis = await
\* analyzeRisk(...) } catch (riskError) { log }
riskAnalysed(h, risk) ==
    LET called == [h EXCEPT !.calls = @ \cup {"dashboard", "analyzeRisk"}]
    IN  IF risk.kind = "throw"
        THEN [called EXCEPT !.pc = "context", !.riskError = << risk.error >>]
        ELSE [called EXCEPT !.pc = "context", !.riskAnalysis = << risk.value >>]

\* lines 173-185: createEmbedding and queryVectors in a try of their own
contextRetrieved(h, embedding, matches) ==
    LET called == [h EXCEPT !.pc = "openai",
                            !.calls = @ \cup {"dashboard", "createEmbedding"}]
    IN  IF embedding.kind = "throw" THEN called
        ELSE IF matches.kind = "throw"
        THEN [called EXCEPT !.calls = @ \cup {"queryVectors"}]
        ELSE [called EXCEPT !.calls = @ \cup {"queryVectors"},
                            !.relevantContext = matches.value]

\* lines 239-279: the completion and JSON.parse of its text; a text that is
\* not JSON is posted as one comment; completion.value is <<>> for such a
\* text and << inlineComments >> for a parsed review
reviewGenerated(h, completion, fallbackComment) ==
    LET called == [h EXCEPT !.calls = @ \cup {"dashboard", "openai"}]
    IN  IF completion.kind = "throw" THEN Failed(called, completion.error)
        ELSE IF completion.value = <<>>
        THEN LET commented == [called EXCEPT !.calls = @ \cup {"github.createComment"}]
             IN  IF fallbackComment.kind = "throw"
                 THEN Failed(commented, fallbackComment.error)
                 ELSE Answered([commented EXCEPT
                                   !.posted = << [kind |-> "fallback",
                                                  riskSummary |-> <<>>,
                                                  comments |-> 0] >>],
                               200, [message |-> "Review posted (fallback)"])
        ELSE [called EXCEPT !.pc = "post", !.inlineComments = completion.value[1]]

\* lines 281-384: listCommits, the comments converted, the review or the
\* summary posted with the risk summary in its body, and the answer;
\* commits.value is the number of commits listed
reviewPosted(h, commits, post) ==
    LET listed == [h EXCEPT !.calls = @ \cup {"github.listCommits"}]
        converted == handler(h.codeFiles, h.inlineComments)
        riskSummary == IF h.riskAnalysis # <<>>
                       THEN << h.riskAnalysis[1].summary >> ELSE <<>>
        call == IF converted.posted = "review"
                THEN "github.createReview" ELSE "github.createComment"
        sent == [listed EXCEPT !.calls = @ \cup {"dashboard", call}]
    IN  IF commits.kind = "throw" THEN Failed(listed, commits.error)
        ELSE IF commits.value = 0 THEN Failed(listed, "TypeError")
        ELSE IF converted.status = 500 THEN Failed(listed, "TypeError")
        ELSE IF post.kind = "throw" THEN Failed(sent, post.error)
        ELSE Answered([sent EXCEPT
                          !.posted = << [kind |-> converted.posted,
                                         riskSummary |-> riskSummary,
                                         comments |-> Len(converted.comments)] >>],
                      200,
                      [message |-> "Review posted successfully",
                       filesReviewed |-> Len(h.validFiles),
                       inlineComments |-> Len(converted.comments),
                       ragEnabled |-> TRUE,
                       riskAnalysis |->
                          IF h.riskAnalysis # <<>>
                          THEN << [score |-> h.riskAnalysis[1].score,
                                   level |-> h.riskAnalysis[1].level,
                                   traceId |-> h.riskAnalysis[1].auditTrace.traceId] >>
                          ELSE <<>>])

-----------------------------------------------------------------------------
(* The requests and the outcomes of the calls.                             *)

n_logo == <<"l","o","g","o",".","p","n","g">>

PullFile(file, changes) ==
    [filename |-> file.filename, status |-> file.status, changes |-> changes,
     additions |-> file.additions, deletions |-> file.deletions, patch |-> file.patch]

\* what listFiles returns: two code files with patches; an image and a
\* removed file; a file of 600 changed lines and a file without patch
PullFileLists ==
    { << PullFile(File(n_util, <<2>>, <<1>>, <<p_example>>), 3),
         PullFile(File(n_app, <<2>>, <<0>>, <<p_twoAdded>>), 2) >>,
      << PullFile(File(n_logo, <<0>>, <<0>>, <<>>), 0),
         [PullFile(File(n_lib, <<0>>, <<9>>, <<p_plain>>), 9) EXCEPT !.status = "removed"] >>,
      << PullFile(File(n_util, <<600>>, <<0>>, <<p_plain>>), 600),
         PullFile(File(n_lib, <<1>>, <<0>>, <<>>), 1) >> }

RequestBody(action, pull_request) ==
    [action |-> action, pull_request |-> pull_request, repository |-> <<"acme/shop">>]

Requests ==
    { [method |-> m, event |-> e, body |-> b] :
        m \in {"POST", "GET"},
        e \in {"pull_request", "push"},
        b \in { <<>> } \cup
              { << RequestBody(a, <<QuietPR>>) >> :
                   a \in { <<"opened">>, <<"synchronize">>, <<"closed">>, <<>> } } \cup
              { << RequestBody(<<"opened">>, <<>>) >> } }

\* the parsed reviews: no comment, one on an added line, one that has no
\* severity
ParsedReviews ==
    { <<>>,
      << InlineComment(n_util, 2, <<s_warning>>, "c") >>,
      << InlineComment(n_app, 12, <<>>, "c") >> }

WebhookInit ==
    /\ hook = NoRequest
    /\ params = Params(<<>>, QuietPR, <<>>, <<>>, <<>>, <<>>)
    /\ now = T0
    /\ analysis = <<>>
    /\ exported = <<>>
    /\ patchText = <<>>
    /\ positions = <<>>
    /\ review = NoReview
    /\ nullArgs = {}
    /\ outcome = <<>>
    /\ paced = NoRun
    /\ ConfigAsShipped
    /\ logger = NoLogger
    /\ embedder = NoEmbedder
    /\ store = NoStore

\* a request arrives
ReceiveRequest ==
    /\ hook.pc = "idle"
    /\ \E req \in Requests : hook' = receive(hook, req)
    /\ UNCHANGED <<params, now, analysis, exported, logger, embedder, store>>
    /\ UNCHANGED <<diffVars, reviewVars, callVars, pacedVars, configVars>>

\* octokit.pulls.listFiles returns or fails
ListFiles ==
    /\ hook.pc = "listFiles"
    /\ \E listed \in {Thrown("listFiles failed")} \cup {Returned(l) : l \in PullFileLists} :
          hook' = listedFiles(hook, listed)
    /\ UNCHANGED <<params, now, analysis, exported, logger, embedder, store>>
    /\ UNCHANGED <<diffVars, reviewVars, callVars, pacedVars, configVars>>

\* analyzeRisk is called with the valid files, the pull request of the
\* request and empty histories, and returns or throws
RunRiskAnalysis ==
    /\ hook.pc = "risk"
    /\ \E risk \in {Thrown("analyzeRisk failed")} \cup
                   { Returned(analyzeRisk(
                         Params(hook.validFiles, hook.request[1].body[1].pull_request[1],
                                <<>>, <<>>, <<>>, <<>>),
                         now, r1, r2)) : r1 \in RandomValues, r2 \in RandomValues } :
          hook' = riskAnalysed(hook, risk)
    /\ UNCHANGED <<params, now, analysis, exported, logger, embedder, store>>
    /\ UNCHANGED <<diffVars, reviewVars, callVars, pacedVars, configVars>>

\* createEmbedding and queryVectors return or fail
RetrieveContext ==
    /\ hook.pc = "context"
    /\ \E embedding \in {Thrown("createEmbedding failed"), Returned("vector")},
          matches \in {Thrown("queryVectors failed"), Returned(0), Returned(2)} :
          hook' = contextRetrieved(hook, embedding, matches)
    /\ UNCHANGED <<params, now, analysis, exported, logger, embedder, store>>
    /\ UNCHANGED <<diffVars, reviewVars, callVars, pacedVars, configVars>>

\* the completion returns a review, returns a text that is not JSON, or fails
GenerateReview ==
    /\ hook.pc = "openai"
    /\ \E completion \in {Thrown("completion failed"), Returned(<<>>)} \cup
                         {Returned(<< r >>) : r \in ParsedReviews},
          fallbackComment \in {Thrown("createComment failed"), Returned("created")} :
          hook' = reviewGenerated(hook, completion, fallbackComment)
    /\ UNCHANGED <<params, now, analysis, exported, logger, embedder, store>>
    /\ UNCHANGED <<diffVars, reviewVars, callVars, pacedVars, configVars>>

\* the commits are listed, the review is posted and the request answered
PostToGitHub ==
    /\ hook.pc = "post"
    /\ \E commits \in {Thrown("listCommits failed"), Returned(0), Returned(1)},
          post \in {Thrown("post failed"), Returned("created")} :
          hook' = reviewPosted(hook, commits, post)
    /\ UNCHANGED <<params, now, analysis, exported, logger, embedder, store>>
    /\ UNCHANGED <<diffVars, reviewVars, callVars, pacedVars, configVars>>

WebhookNext ==
    \/ ReceiveRequest
    \/ ListFiles
    \/ RunRiskAnalysis
    \/ RetrieveContext
    \/ GenerateReview
    \/ PostToGitHub

WebhookSpec == WebhookInit /\ [][WebhookNext]_vars

-----------------------------------------------------------------------------
(* Vocabulary of the properties, stated without the operators of the model *)
(* of the calculators.                                                     *)

HasAnalysis == analysis # <<>>

SignalSet == {SignalNames[k] : k \in 1..Len(SignalNames)}

InUnitInterval(x) == RLe(Zero, x) /\ RLe(x, One)

\* score is the multiple k/1000 with 1000x - 1/2 < k <= 1000x + 1/2:
\* x rounded to three decimals, a tie going up
IsRounded3(score, x) ==
    /\ 1000 % score.d = 0
    /\ LET k == R(score.n * (1000 \div score.d), 1)
           scaled == RMul(x, R(1000, 1))
       IN  /\ RLt(RAdd(scaled, R(-1, 2)), k)
           /\ RLe(k, RAdd(scaled, R(1, 2)))

\* pat occurs in s when the case of the letters of s is ignored
OccursIgnoringCase(pat, s) ==
    \E off \in 0..(Len(s) - Len(pat)) :
        \A j \in 1..Len(pat) : LowerChar(s[off + j]) = pat[j]

\* pat occurs in s as written
OccursExactly(pat, s) ==
    \E off \in 0..(Len(s) - Len(pat)) :
        \A j \in 1..Len(pat) : s[off + j] = pat[j]

SomeOccursIgnoringCase(patterns, s) ==
    \E i \in 1..Len(patterns) : OccursIgnoringCase(patterns[i], s)

\* the largest member of a finite non-empty set of numbers
MaxOf(S) == CHOOSE m \in S : \A n \in S : n <= m

Indicator(b, x) == IF b THEN x ELSE Zero

\* the clock reading of the call that produced an analysis
CallTime(a) == a.auditTrace.timestamp

-----------------------------------------------------------------------------
(* C1: in every returned RiskAnalysis the level is the one the returned    *)
(* score alone determines: LOW iff score < 0.3, MEDIUM iff                 *)
(* 0.3 <= score < 0.6, HIGH iff score >= 0.6.                              *)
C1_LevelFollowsReturnedScore ==
    HasAnalysis =>
        LET a == analysis[1]
        IN  /\ (a.level = "LOW") <=> RLt(a.score, R(3, 10))
            /\ (a.level = "MEDIUM") <=>
                    (RLe(R(3, 10), a.score) /\ RLt(a.score, R(6, 10)))
            /\ (a.level = "HIGH") <=> RLe(R(6, 10), a.score)

-----------------------------------------------------------------------------
(* C2: the weighted sum of the six signal scores computed by analyzeRisk,  *)
(* and the score it returns, lie in [0, 1].                                *)
C2_AggregateInUnitInterval ==
    HasAnalysis =>
        LET a == analysis[1]
            sum == RAdd(RAdd(RAdd(RAdd(RAdd(
                       RMul(R(15, 100), a.signals.churn.score),
                       RMul(R(20, 100), a.signals.coverage_gap.score)),
                       RMul(R(20, 100), a.signals.incident_hotspot.score)),
                       RMul(R(10, 100), a.signals.flake_proximity.score)),
                       RMul(R(25, 100), a.signals.diff_risk.score)),
                       RMul(R(10, 100), a.signals.time_pressure.score))
        IN  /\ a.auditTrace.weights =
                   [churn |-> R(15, 100), coverage_gap |-> R(20, 100),
                    incident_hotspot |-> R(20, 100), flake_proximity |-> R(10, 100),
                    diff_risk |-> R(25, 100), time_pressure |-> R(10, 100)]
            /\ \A s \in SignalSet : InUnitInterval(a.signals[s].score)
            /\ InUnitInterval(sum)
            /\ IsRounded3(a.score, sum)
            /\ InUnitInterval(a.score)

\* an analysis near the upper end of the interval
C2_Witness ==
    HasAnalysis /\ RLe(R(85, 100), analysis[1].score)

-----------------------------------------------------------------------------
(* C3: the score of each of the six signal results lies in [0, 1] and is   *)
(* the multiple of 0.001 obtained from the unrounded score by rounding     *)
(* score x 1000 half up.                                                   *)

\* the unrounded score of a signal result, from the counts it reports
Unrounded(sig) ==
    CASE sig.signal = "churn" ->
            RMin(R(sig.raw.maxChurn, 10), One)
      [] sig.signal = "coverage_gap" ->
            RMin(RAdd(IF sig.raw.totalFiles > 0
                      THEN R(sig.raw.uncoveredFiles, sig.raw.totalFiles) ELSE Zero,
                      R(2 * sig.raw.criticalUncovered, 10)), One)
      [] sig.signal = "incident_hotspot" ->
            IF sig.raw.totalFiles > 0
            THEN RMin(R(sig.raw.hotspotCount, sig.raw.totalFiles), One) ELSE Zero
      [] sig.signal = "flake_proximity" ->
            IF sig.raw.totalFiles > 0
            THEN RMin(RDivInt(sig.raw.flakeProximityCount, sig.raw.totalFiles), One)
            ELSE Zero
      [] sig.signal = "diff_risk" ->
            RMin(RAdd(RAdd(Indicator(sig.raw.totalChanges > 500, R(3, 10)),
                           Indicator(sig.raw.criticalHits > 0, R(3, 10))),
                      Indicator(sig.raw.dangerousHits > 0, R(4, 10))), One)
      [] sig.signal = "time_pressure" ->
            LET has(t) == \E i \in 1..Len(sig.citations) : sig.citations[i].type = t
            IN  RMin(RAdd(RAdd(RAdd(Indicator(has("weekend"), R(3, 10)),
                                    Indicator(has("late_night"), R(5, 10))),
                               Indicator(has("rush_hour"), R(2, 10))),
                          Indicator(has("urgency_indicator"), R(3, 10))), One)

C3_ScoresClampedAndRounded ==
    HasAnalysis =>
        \A s \in SignalSet :
            LET sig == analysis[1].signals[s]
            IN  /\ sig.signal = s
                /\ InUnitInterval(sig.score)
                /\ IsRounded3(sig.score, Unrounded(sig))

\* a tie: one near-flaky file among eight gives 0.0625, returned as 0.063
C3_Witness ==
    /\ HasAnalysis
    /\ LET sig == analysis[1].signals.flake_proximity
       IN  /\ sig.raw.totalFiles = 8
           /\ sig.raw.flakeProximityCount = R(1, 2)
           /\ sig.score = R(63, 1000)

-----------------------------------------------------------------------------
(* C4: a second invocation of analyzeRisk on the same inputs returns the   *)
(* same score, level and signals as the one before it, and an audit trace  *)
(* that differs at most in traceId, timestamp and executionTimeMs,         *)
(* whatever the wall-clock time of each invocation.                        *)

TraceModuloRun(trace) ==
    [trace EXCEPT !.traceId = <<>>, !.timestamp = 0, !.executionTimeMs = 0]

SameAnalysis(a, b) ==
    /\ a.score = b.score
    /\ a.level = b.level
    /\ a.signals = b.signals
    /\ TraceModuloRun(a.auditTrace) = TraceModuloRun(b.auditTrace)

C4_RepeatedAnalysisAgrees ==
    [][(analysis # <<>> /\ analysis' # <<>>)
          => SameAnalysis(analysis[1], analysis'[1])]_vars

-----------------------------------------------------------------------------
(* C5: in an exported audit trace read back, finalScore is the sum over    *)
(* the six signals of weights[s] x signals[s].score of that same record,   *)
(* rounded to three decimals.                                              *)
C5_ExportedScoreRecomputable ==
    exported # <<>> =>
        LET rec == parseAuditTrace(exported[1])
            term(s) == RMul(rec.weights[s], rec.signals[s].score)
            sum == RAdd(RAdd(RAdd(RAdd(RAdd(term("churn"), term("coverage_gap")),
                       term("incident_hotspot")), term("flake_proximity")),
                       term("diff_risk")), term("time_pressure"))
        IN  /\ IsRounded3(rec.finalScore, sum)
            /\ rec.finalScore = analysis[1].auditTrace.finalScore

\* an exported trace whose scores need all three decimals
C5_Witness ==
    /\ exported # <<>>
    /\ LET rec == parseAuditTrace(exported[1])
       IN  /\ rec.finalScore.d = 1000
           /\ \E s \in SignalSet : rec.signals[s].score.d = 1000

-----------------------------------------------------------------------------
(* C6: the mitigations of an analysis are one Mitigation for each signal   *)
(* whose score is >= 0.5 and none for a signal below 0.5, in the canonical *)
(* order churn, coverage_gap, incident_hotspot, flake_proximity,           *)
(* diff_risk, time_pressure.                                               *)

CanonicalIndex(s) == CHOOSE k \in 1..Len(SignalNames) : SignalNames[k] = s

C6_MitigationPerTriggeredSignal ==
    HasAnalysis =>
        LET a == analysis[1]
            m == a.mitigations
        IN  /\ \A s \in SignalSet :
                   RLe(R(1, 2), a.signals[s].score)
                       <=> (\E i \in 1..Len(m) : m[i].signal = s)
            /\ \A i \in 1..Len(m) :
                   /\ m[i].signal \in SignalSet
                   /\ m[i].score = a.signals[m[i].signal].score
            /\ \A i \in 1..Len(m), j \in 1..Len(m) :
                   i < j => CanonicalIndex(m[i].signal) < CanonicalIndex(m[j].signal)

\* a signal at exactly 0.5 triggers, ahead of a higher score later in the order
C6_Witness ==
    /\ HasAnalysis
    /\ LET m == analysis[1].mitigations
       IN  \E i \in 1..Len(m), j \in 1..Len(m) :
               i < j /\ m[i].score = R(1, 2) /\ RLt(R(1, 2), m[j].score)

-----------------------------------------------------------------------------
(* C7 as stated: every Mitigation has requiresApproval = true, the         *)
(* signal's first 2 configured suggestion strings and no more, and the     *)
(* signal's first 3 citations and no more.                                 *)
C7_TwoSuggestionsThreeCitations ==
    HasAnalysis =>
        LET a == analysis[1]
        IN  \A i \in 1..Len(a.mitigations) :
                LET m == a.mitigations[i]
                    cited == a.signals[m.signal].citations
                IN  /\ m.requiresApproval = TRUE
                    /\ Len(m.suggestions) <= 2
                    /\ m.suggestions = SubSeq(mitigationConfig[m.signal], 1, 2)
                    /\ Len(m.citations) <= 3
                    /\ m.citations = SubSeq(cited, 1, Min(3, Len(cited)))

(* C7 amended: every Mitigation has requiresApproval = true, all the       *)
(* suggestion strings configured for its signal (three each; the summary   *)
(* lists the first 2 of them), and the signal's first 3 citations and no   *)
(* more.                                                                   *)
C7_AllSuggestionsThreeCitations ==
    HasAnalysis =>
        LET a == analysis[1]
        IN  /\ Len(a.summary.mitigations) = Len(a.mitigations)
            /\ \A i \in 1..Len(a.mitigations) :
                LET m == a.mitigations[i]
                    cited == a.signals[m.signal].citations
                IN  /\ m.requiresApproval = TRUE
                    /\ Len(m.suggestions) = 3
                    /\ m.suggestions = mitigationConfig[m.signal]
                    /\ a.summary.mitigations[i].suggestions = SubSeq(m.suggestions, 1, 2)
                    /\ Len(m.citations) <= 3
                    /\ m.citations = SubSeq(cited, 1, Min(3, Len(cited)))

\* a Mitigation of a signal that has more than three citations
C7_Witness ==
    /\ HasAnalysis
    /\ LET a == analysis[1]
       IN  \E i \in 1..Len(a.mitigations) :
               /\ Len(a.signals[a.mitigations[i].signal].citations) > 3
               /\ Len(a.mitigations[i].citations) = 3
               /\ Len(a.mitigations[i].suggestions) = 3

-----------------------------------------------------------------------------
(* C8: the churn score is min(M / 10, 1.0), M being the largest, over the  *)
(* changed files, number of commit records that list the file and are      *)
(* dated within 30 days of the analysis; a commit outside the window or    *)
(* without a date is not counted.                                          *)

\* the commit records that count for a file at clock reading t
QualifyingCommits(name, t) ==
    {i \in 1..Len(params.commitHistory) :
        LET c == params.commitHistory[i]
        IN  /\ c.files # <<>>
            /\ \E k \in 1..Len(c.files[1]) : c.files[1][k] = name
            /\ c.date.kind = "date"
            /\ t - c.date.t <= 30 * HoursPerDay}

MaxQualifying(t) ==
    MaxOf({0} \cup {Cardinality(QualifyingCommits(params.files[f].filename, t)) :
                        f \in 1..Len(params.files)})

C8_ChurnFromBusiestFile ==
    HasAnalysis =>
        LET a == analysis[1]
            M == MaxQualifying(CallTime(a))
        IN  /\ a.signals.churn.raw.maxChurn = M
            /\ a.signals.churn.score = RMin(R(M, 10), One)

\* ten qualifying commits on one file, beside commits that do not count
C8_Witness ==
    /\ HasAnalysis
    /\ MaxQualifying(CallTime(analysis[1])) = 10
    /\ Len(params.commitHistory) > 10
    /\ analysis[1].signals.churn.score = One

-----------------------------------------------------------------------------
(* C9: for N > 0 changed files the coverage-gap score is                   *)
(* min(U / N + 0.2 x C, 1.0), to the three decimals every calculator       *)
(* returns, U being the number of files whose coverage is unknown or       *)
(* below 0.7 and C the number of those whose filename contains a critical  *)
(* pattern whatever its case; a file at exactly 0.7 is not uncovered.      *)

UncoveredFiles ==
    {f \in 1..Len(params.files) :
        LET name == params.files[f].filename
        IN  \/ name \notin DOMAIN params.coverageData
            \/ params.coverageData[name].kind = "null"
            \/ RLt(params.coverageData[name].v, R(7, 10))}

CriticalUncoveredFiles ==
    {f \in UncoveredFiles :
        SomeOccursIgnoringCase(coverageGapConfig.criticalFilePatterns,
                               params.files[f].filename)}

C9_CoverageGapFormula ==
    (HasAnalysis /\ Len(params.files) > 0) =>
        LET sig == analysis[1].signals.coverage_gap
            U == Cardinality(UncoveredFiles)
            C == Cardinality(CriticalUncoveredFiles)
            N == Len(params.files)
        IN  /\ sig.raw.uncoveredFiles = U
            /\ sig.raw.criticalUncovered = C
            /\ IsRounded3(sig.score, RMin(RAdd(R(U, N), R(2 * C, 10)), One))
            /\ (N = 4 /\ U = 2 /\ C = 0) => sig.score = R(5, 10)
            /\ (N = 4 /\ U = 2 /\ C = 1) => sig.score = R(7, 10)

\* two of four files uncovered, one of them critical by a capitalised name,
\* and a third file at exactly the threshold
C9_Witness ==
    /\ HasAnalysis
    /\ Len(params.files) = 4
    /\ Cardinality(UncoveredFiles) = 2
    /\ Cardinality(CriticalUncoveredFiles) = 1
    /\ \E f \in 1..4 :
          /\ params.files[f].filename \in DOMAIN params.coverageData
          /\ params.coverageData[params.files[f].filename] = Coverage(R(7, 10))
    /\ analysis[1].signals.coverage_gap.score = R(7, 10)

-----------------------------------------------------------------------------
(* C10: the diff-risk score is min(0.3 [total changed lines > 500]         *)
(* + 0.3 [a critical pattern occurs, whatever its case, in a filename or   *)
(* a patch] + 0.4 [a dangerous pattern occurs, as written, in a patch],    *)
(* 1.0); each factor is added once; a total of exactly 500 is not large.   *)

TotalChangedLines ==
    LET RECURSIVE lines(_)
        lines(k) ==
            IF k = 0 THEN 0
            ELSE lines(k - 1)
                 + (IF params.files[k].additions = <<>> THEN 0
                    ELSE params.files[k].additions[1])
                 + (IF params.files[k].deletions = <<>> THEN 0
                    ELSE params.files[k].deletions[1])
    IN  lines(Len(params.files))

PatchOf(f) == IF params.files[f].patch = <<>> THEN <<>> ELSE params.files[f].patch[1]

CriticalPatternPresent ==
    \E f \in 1..Len(params.files) :
        \E i \in 1..Len(diffRiskConfig.criticalPatterns) :
            \/ OccursIgnoringCase(diffRiskConfig.criticalPatterns[i],
                                  params.files[f].filename)
            \/ OccursIgnoringCase(diffRiskConfig.criticalPatterns[i], PatchOf(f))

DangerousPatternPresent ==
    \E f \in 1..Len(params.files) :
        \E i \in 1..Len(diffRiskConfig.dangerousPatterns) :
            OccursExactly(diffRiskConfig.dangerousPatterns[i], PatchOf(f))

-----------------------------------------------------------------------------
(* Vocabulary of the properties of the diff-position mapper.               *)

HasPositions == positions # <<>>

\* the patch '@@ -1,2 +1,3 @@', ' context', '+added', '-removed'
ExamplePatch == joinLines(<<l_hunk, l_context, l_added, l_removed>>)

\* the kinds of patch line, read off the line itself
IsHunkLine(l) == l \in HunkLines
NewFileStart(l) == IF l = l_hunk THEN 1 ELSE 12
IsAdditionLine(l) ==
    /\ Len(l) >= 1 /\ l[1] = "+"
    /\ ~(Len(l) >= 3 /\ l[2] = "+" /\ l[3] = "+")
IsContextLine(l) == ~IsHunkLine(l) /\ (Len(l) = 0 \/ l[1] \notin {"+", "-"})

-----------------------------------------------------------------------------
(* C11 as stated: for the patch '@@ -1,2 +1,3 @@', ' context', '+added',   *)
(* '-removed' the map has no entry for new-file line 2 and sends new-file  *)
(* line 3 to diff position 3.                                              *)
C11_AddedLineIsLine3 ==
    (HasPositions /\ patchText = ExamplePatch) =>
        /\ positions[1].kind = "return"
        /\ 2 \notin DOMAIN positions[1].value
        /\ 3 \in DOMAIN positions[1].value
        /\ positions[1].value[3] = 3

(* C11 amended: for that patch the context line is new-file line 1 and has *)
(* no entry, the added line is new-file line 2 and is sent to diff         *)
(* position 3, and the map has no other entry.                             *)
C11_AddedLineIsLine2 ==
    (HasPositions /\ patchText = ExamplePatch) =>
        /\ positions[1].kind = "return"
        /\ DOMAIN positions[1].value = {2}
        /\ positions[1].value[2] = 3

\* the example patch has been parsed
C11_Witness ==
    HasPositions /\ patchText = ExamplePatch

-----------------------------------------------------------------------------
(* C16: for a patch made of hunks the map sends, for each addition line    *)
(* (starts with '+' but not '+++'), the number c - 1 + k to the line's     *)
(* 1-based index in the patch, c being the new-file start of the nearest   *)
(* hunk header before it and k the count of context and addition lines     *)
(* from that header up to this line; nothing else is in the map.  A line   *)
(* that is no header and starts with neither '+' nor '-' is a context      *)
(* line; where two addition lines get the same number the later one has    *)
(* the entry.                                                              *)

PatchLinesOf(text) == split(text)

\* the number the claim gives the addition line at index i of lines
NewFileLine(lines, i) ==
    LET h == CHOOSE j \in 1..i :
                IsHunkLine(lines[j]) /\ \A m \in (j + 1)..i : ~IsHunkLine(lines[m])
        k == Cardinality({m \in (h + 1)..i :
                            IsContextLine(lines[m]) \/ IsAdditionLine(lines[m])})
    IN  NewFileStart(lines[h]) - 1 + k

C16_MapOfAdditionLines ==
    (HasPositions /\ patchText \in HunkPatches) =>
        LET lines == PatchLinesOf(patchText)
            added == {i \in 1..Len(lines) : IsAdditionLine(lines[i])}
            map == positions[1].value
        IN  /\ positions[1].kind = "return"
            /\ DOMAIN map = {NewFileLine(lines, i) : i \in added}
            /\ \A i \in added :
                  \/ map[NewFileLine(lines, i)] = i
                  \/ \E j \in added :
                        j > i /\ NewFileLine(lines, j) = NewFileLine(lines, i)

\* a hunk that starts at new-file line 12: a deletion, a context line, then
\* an addition, which is line 13 at position 4
C16_Witness ==
    /\ HasPositions
    /\ patchText = joinLines(<<l_hunk12, l_removed, l_context, l_added>>)
    /\ positions[1].value = (13 :> 4)

-----------------------------------------------------------------------------
(* C20: parseDiffPositions returns a map for every patch text and never    *)
(* throws: a patch without a recognizable hunk header, the empty string    *)
(* among them, gives an empty or partial map.                              *)
C20_NeverThrows ==
    HasPositions =>
        /\ positions[1].kind = "return"
        /\ \A line \in DOMAIN positions[1].value :
              positions[1].value[line] \in 1..Len(PatchLinesOf(patchText))
        /\ patchText = <<>> => DOMAIN positions[1].value = {}

\* a patch whose only header is malformed has been parsed
C20_Witness ==
    /\ HasPositions
    /\ patchText = joinLines(<<l_badHunk, l_added>>)
    /\ positions[1] = Returned((2 :> 2))

-----------------------------------------------------------------------------
(* C12: each calculator that consumes a history dataset (churn, coverage   *)
(* gap, incident hotspot, flake proximity) returns score 0 when its        *)
(* dataset is empty or omitted.                                            *)
C12_EmptyDatasetScoresZero ==
    HasAnalysis =>
        LET sig == analysis[1].signals
        IN  /\ params.commitHistory = <<>> => sig.churn.score = Zero
            /\ DOMAIN params.coverageData = {} => sig.coverage_gap.score = Zero
            /\ params.incidentHistory = <<>> => sig.incident_hotspot.score = Zero
            /\ DOMAIN params.flakeData = {} => sig.flake_proximity.score = Zero

-----------------------------------------------------------------------------
(* C17: the time-pressure score is min(W + H + U, 1.0): W = 0.3 if the PR  *)
(* was created on a Saturday or Sunday; H = 0.5 if the hour is >= 23 or    *)
(* < 6, otherwise 0.2 if the hour is >= 17, otherwise 0; U = 0.3, once, if *)
(* title and body contain an urgency keyword whatever its case.  Without   *)
(* a creation time the time of the call takes its place.                   *)

\* the hour of the day and the day of the week (0 is Sunday) of a time in
\* hours since Thursday 1 January 1970, 00:00
HourOf(t) == t % 24
WeekdayOf(t) == ((t \div 24) + 4) % 7

UrgencyPresent(pr) ==
    \E i \in 1..Len(urgencyPatterns) :
        OccursIgnoringCase(urgencyPatterns[i], pr.title \o <<" ">> \o pr.body)

TimePressureAt(pr, t) ==
    LET W == Indicator(WeekdayOf(t) \in {0, 6}, R(3, 10))
        H == IF HourOf(t) >= 23 \/ HourOf(t) < 6 THEN R(5, 10)
             ELSE IF HourOf(t) >= 17 THEN R(2, 10) ELSE Zero
        U == Indicator(UrgencyPresent(pr), R(3, 10))
    IN  RMin(RAdd(RAdd(W, H), U), One)

C17_TimePressureFormula ==
    HasAnalysis =>
        LET pr == params.pullRequest
            sig == analysis[1].signals.time_pressure
        IN  /\ pr.created_at.kind = "date" =>
                  sig.score = TimePressureAt(pr, pr.created_at.t)
            /\ pr.created_at.kind = "missing" =>
                  sig.score = TimePressureAt(pr, CallTime(analysis[1]))

\* a PR created on a Saturday at 23:00 with an urgency keyword in capitals,
\* and a second keyword: 0.3 + 0.5 + 0.3 is cut to 1.0
C17_Witness ==
    /\ HasAnalysis
    /\ params.pullRequest.created_at = DateAt(T0 - 143)
    /\ params.pullRequest.title = <<"U","r","g","e","n","t",":"," ","a","s","a","p">>
    /\ analysis[1].signals.time_pressure.score = One

-----------------------------------------------------------------------------
(* C18: the incident-hotspot score is min(H / N, 1.0) for N > 0 changed    *)
(* files and 0 for N = 0, to the three decimals every calculator returns,  *)
(* H counting the files that at least 2 incident records dated within 90   *)
(* days of the analysis refer to; a file with fewer incidents is cited     *)
(* and does not raise the score.                                           *)

IncidentsOf(name, t) ==
    {i \in 1..Len(params.incidentHistory) :
        LET inc == params.incidentHistory[i]
        IN  /\ inc.files # <<>>
            /\ \E k \in 1..Len(inc.files[1]) : inc.files[1][k] = name
            /\ inc.date.kind = "date"
            /\ t - inc.date.t <= 90 * HoursPerDay}

HotspotFiles(t) ==
    {f \in 1..Len(params.files) :
        Cardinality(IncidentsOf(params.files[f].filename, t)) >= 2}

C18_IncidentHotspotFormula ==
    HasAnalysis =>
        LET sig == analysis[1].signals.incident_hotspot
            t == CallTime(analysis[1])
            N == Len(params.files)
            H == Cardinality(HotspotFiles(t))
        IN  /\ sig.raw.hotspotCount = H
            /\ N = 0 => sig.score = Zero
            /\ N > 0 => IsRounded3(sig.score, RMin(R(H, IF N > 0 THEN N ELSE 1), One))
            /\ \A f \in 1..N :
                  LET count == Cardinality(IncidentsOf(params.files[f].filename, t))
                  IN  (count > 0) <=>
                         \E c \in 1..Len(sig.citations) :
                            /\ sig.citations[c].file = params.files[f].filename
                            /\ sig.citations[c].incidents = count
                            /\ sig.citations[c].hotspot = (count >= 2)

\* one hotspot among three files, and a file cited for a single incident
C18_Witness ==
    /\ HasAnalysis
    /\ Len(params.files) = 3
    /\ LET sig == analysis[1].signals.incident_hotspot
       IN  /\ sig.score = R(333, 1000)
           /\ \E c \in 1..Len(sig.citations) :
                 sig.citations[c].incidents = 1 /\ ~sig.citations[c].hotspot

-----------------------------------------------------------------------------
(* C19: the flake-proximity score is min(T / N, 1.0) for N > 0 changed     *)
(* files and 0 for N = 0, to the three decimals every calculator returns,  *)
(* T adding 1.0 for each file flagged isFlaky and 0.5 for each file        *)
(* flagged nearFlaky and not isFlaky; a file without a flake entry adds 0. *)

FlakyFiles ==
    {f \in 1..Len(params.files) :
        /\ params.files[f].filename \in DOMAIN params.flakeData
        /\ params.flakeData[params.files[f].filename].isFlaky}

NearFlakyOnlyFiles ==
    {f \in 1..Len(params.files) :
        /\ params.files[f].filename \in DOMAIN params.flakeData
        /\ ~params.flakeData[params.files[f].filename].isFlaky
        /\ params.flakeData[params.files[f].filename].nearFlaky}

C19_FlakeProximityFormula ==
    HasAnalysis =>
        LET sig == analysis[1].signals.flake_proximity
            N == Len(params.files)
            T == R((2 * Cardinality(FlakyFiles)) + Cardinality(NearFlakyOnlyFiles), 2)
        IN  /\ sig.raw.flakeProximityCount = T
            /\ N = 0 => sig.score = Zero
            /\ N > 0 => IsRounded3(sig.score,
                                   RMin(RMul(T, R(1, IF N > 0 THEN N ELSE 1)), One))

\* two files, one flagged both isFlaky and nearFlaky, one nearFlaky only:
\* T = 1.5 and the score is 0.75
C19_Witness ==
    /\ HasAnalysis
    /\ Len(params.files) = 2
    /\ \E f \in FlakyFiles : params.flakeData[params.files[f].filename].nearFlaky
    /\ Cardinality(NearFlakyOnlyFiles) = 1
    /\ analysis[1].signals.flake_proximity.score = R(75, 100)

-----------------------------------------------------------------------------
(* C15: in the webhook handler an inline comment whose file has no         *)
(* position map, or whose line is not a key of its file's map, is skipped  *)
(* without failing the review; every other comment is posted, and every    *)
(* posted comment carries the position its own file's map gives its line.  *)

HasResponse == review.response # <<>>

\* the position map of the file a comment names: that of its patch, when a
\* code file of that name has one
PatchedFilesNamed(name) ==
    {i \in 1..Len(review.codeFiles) :
        /\ review.codeFiles[i].filename = name
        /\ review.codeFiles[i].patch \notin {<<>>, << <<>> >>}}

OwnMap(name) ==
    parseDiffPositions(
        review.codeFiles[CHOOSE i \in PatchedFilesNamed(name) : TRUE].patch).value

\* the comments that have an address, by their place in the review
Addressed ==
    {k \in 1..Len(review.inlineComments) :
        LET c == review.inlineComments[k]
        IN  /\ PatchedFilesNamed(c.file) # {}
            /\ c.line \in DOMAIN OwnMap(c.file)}

\* the j-th comment that has an address
NthAddressed(j) ==
    CHOOSE k \in Addressed : Cardinality({m \in Addressed : m <= k}) = j

PostedAreTheAddressed ==
    LET posted == review.response[1].comments
    IN  /\ review.response[1].status = 200
        /\ Len(posted) = Cardinality(Addressed)
        /\ \A j \in 1..Len(posted) :
              LET c == review.inlineComments[NthAddressed(j)]
              IN  /\ posted[j].path = c.file
                  /\ posted[j].position = OwnMap(c.file)[c.line]
                  /\ posted[j].body.comment = c.comment

\* as claimed, for every review
C15_MissesSkippedOthersPosted == HasResponse => PostedAreTheAddressed

\* C15, for the reviews whose comments with an address carry a severity:
\* the misses are skipped and the comments with an address are posted
C15_MissesSkippedOthersPosted_WithSeverity ==
    HasResponse =>
        ((\A k \in Addressed : review.inlineComments[k].severity # <<>>)
            => PostedAreTheAddressed)

\* a comment on a file that is not in the pull request is skipped and the
\* comment after it, on line 12 of app.js, is posted at position 2
C15_Witness ==
    /\ HasResponse
    /\ Len(review.inlineComments) = 2
    /\ review.inlineComments[1].file = n_pay
    /\ review.inlineComments[2].file = n_app
    /\ review.response[1].posted = "review"
    /\ Len(review.response[1].comments) = 1
    /\ review.response[1].comments[1].position = 2

-----------------------------------------------------------------------------
(* C14: if one signal calculator throws during analyzeRisk, the fault is   *)
(* caught at the aggregation boundary: the call returns, the other five    *)
(* signals and the composite score are produced, and the failed signal is  *)
(* reported with score 0.                                                  *)

HasOutcome == outcome # <<>>

\* the calculators that are handed null and dereference it
FailedCalculators ==
    {name \in SignalSet :
        \/ name = "churn" /\ "commitHistory" \in nullArgs /\ params.files # <<>>
        \/ name = "coverage_gap" /\ "coverageData" \in nullArgs /\ params.files # <<>>
        \/ name = "incident_hotspot" /\ "incidentHistory" \in nullArgs
                                     /\ params.files # <<>>
        \/ name = "flake_proximity" /\ "flakeData" \in nullArgs /\ params.files # <<>>
        \/ name = "time_pressure" /\ "pullRequest" \in nullArgs}

C14_FaultCaughtAtAggregation ==
    (HasOutcome /\ Cardinality(FailedCalculators) = 1) =>
        /\ outcome[1].kind = "return"
        /\ LET result == outcome[1].value
               sound == riskCore(params, now).signals
           IN  /\ DOMAIN result.signals = SignalSet
               /\ \A name \in SignalSet :
                     IF name \in FailedCalculators
                     THEN result.signals[name].score = Zero
                     ELSE result.signals[name] = sound[name]
               /\ InUnitInterval(result.score)

-----------------------------------------------------------------------------
(* C13: the six calculators share no mutable state and have no ordering    *)
(* dependency: the paced analyzeRisk, which awaits log sends and delays    *)
(* between the calculator calls, returns the signals map, score, level and *)
(* mitigations of the sequential unpaced run on the same arguments, taken  *)
(* at some moment of the paced run.                                        *)

PacedReturned == paced.result # <<>>

\* the result of the unpaced run made when the clock reads t
SameAsUnpacedAt(result, t) ==
    LET unpaced == riskCore(params, t)
    IN  /\ result.signals = unpaced.signals
        /\ result.score = round(unpaced.riskScore)
        /\ result.level = unpaced.riskLevel
        /\ result.mitigations = unpaced.mitigations

C13_PacedAgreesWithUnpaced ==
    PacedReturned =>
        \E t \in paced.startTime..now : SameAsUnpacedAt(paced.result[1], t)

\* C13, for the paced runs during which the clock crosses no hour: the
\* result is that of the unpaced run
C13_PacedAgreesWithinTheHour ==
    (PacedReturned /\ now = paced.startTime) =>
        SameAsUnpacedAt(paced.result[1], now)

-----------------------------------------------------------------------------
(* C24: for every well-formed unified-diff patch, those with              *)
(* '\ No newline at end of file' marker lines among them, each key of the  *)
(* map returned by parseDiffPositions is the real line number, in the new  *)
(* version of the file, of the addition line stored at the mapped          *)
(* position.                                                               *)

\* the unified diff format: a line of a hunk is a context line (' '), an
\* addition ('+'), a deletion ('-') or a marker ('\') that belongs to the
\* line before it and is a line of neither file
IsFormatContext(l) == Len(l) >= 1 /\ l[1] = " "
IsFormatAddition(l) == Len(l) >= 1 /\ l[1] = "+"
IsFormatDeletion(l) == Len(l) >= 1 /\ l[1] = "-"
IsFormatMarker(l) == Len(l) >= 1 /\ l[1] = "\\"

\* the line counts a hunk header announces: '-1,2 +1,3' and '-7 +12'
OldCount(l) == IF l = l_hunk THEN 2 ELSE 1
NewCount(l) == IF l = l_hunk THEN 3 ELSE 1

\* one hunk whose body has the announced numbers of old and new lines, no
\* marker straight after the header
WellFormedPatch(lines) ==
    /\ Len(lines) >= 2
    /\ IsHunkLine(lines[1])
    /\ \A i \in 2..Len(lines) :
          \/ IsFormatContext(lines[i]) \/ IsFormatAddition(lines[i])
          \/ IsFormatDeletion(lines[i])
          \/ IsFormatMarker(lines[i]) /\ i > 2 /\ ~IsFormatMarker(lines[i - 1])
    /\ Cardinality({i \in 2..Len(lines) :
          IsFormatContext(lines[i]) \/ IsFormatDeletion(lines[i])}) = OldCount(lines[1])
    /\ Cardinality({i \in 2..Len(lines) :
          IsFormatContext(lines[i]) \/ IsFormatAddition(lines[i])}) = NewCount(lines[1])

\* the line number, in the new file, of the line at index i of the patch
RealNewLine(lines, i) ==
    NewFileStart(lines[1]) - 1
        + Cardinality({m \in 2..i :
              IsFormatContext(lines[m]) \/ IsFormatAddition(lines[m])})

C24_KeysAreRealLineNumbers ==
    (HasPositions /\ WellFormedPatch(PatchLinesOf(patchText))) =>
        LET lines == PatchLinesOf(patchText)
            map == positions[1].value
        IN  /\ positions[1].kind = "return"
            /\ \A key \in DOMAIN map :
                  /\ map[key] \in 2..Len(lines)
                  /\ IsFormatAddition(lines[map[key]])
                  /\ key = RealNewLine(lines, map[key])

\* C24, for the well-formed patches in which no marker line and no addition
\* whose text begins with '++' comes before an addition
C24_KeysAreRealLineNumbers_Plain ==
    (/\ HasPositions
     /\ WellFormedPatch(PatchLinesOf(patchText))
     /\ \A i \in 2..Len(PatchLinesOf(patchText)) :
           LET l == PatchLinesOf(patchText)[i]
           IN  ~IsFormatMarker(l) /\ l # l_plusplus) =>
        LET lines == PatchLinesOf(patchText)
            map == positions[1].value
        IN  \A key \in DOMAIN map : key = RealNewLine(lines, map[key])

-----------------------------------------------------------------------------
(* C25: in every result of analyzeRisk the analysis ID printed in the      *)
(* Audit Trail section of the summary is the identifier                    *)
(* auditTrace.traceId of that result.                                      *)
C25_SummaryShowsTraceId ==
    HasAnalysis => analysis[1].summary.analysisId = analysis[1].auditTrace.traceId

-----------------------------------------------------------------------------
(* C26: in every result of analyzeRisk the audit trace agrees with the     *)
(* rest of the result: finalScore = score, riskLevel = level,              *)
(* mitigationCount = number of mitigations, filesAnalyzed = number of      *)
(* input files, and for each of the six signals the trace has the          *)
(* signal's score and the number of its citations.                         *)
C26_TraceAgreesWithResult ==
    HasAnalysis =>
        LET a == analysis[1]
            trace == a.auditTrace
        IN  /\ trace.finalScore = a.score
            /\ trace.riskLevel = a.level
            /\ trace.mitigationCount = Len(a.mitigations)
            /\ trace.filesAnalyzed = Len(params.files)
            /\ DOMAIN trace.signals = SignalSet
            /\ \A s \in SignalSet :
                  /\ trace.signals[s].score = a.signals[s].score
                  /\ trace.signals[s].citationCount = Len(a.signals[s].citations)

\* a result with three files, a mitigation, a signal that has citations and
\* a score that needs three decimals
C26_Witness ==
    /\ HasAnalysis
    /\ Len(params.files) = 3
    /\ Len(analysis[1].mitigations) >= 1
    /\ analysis[1].score.d = 1000
    /\ \E s \in SignalSet : Len(analysis[1].signals[s].citations) >= 2

-----------------------------------------------------------------------------
(* C21: analyzeRisk and the six calculators leave RISK_CONFIG (weights,    *)
(* thresholds, per-signal settings, mitigation texts) and the caller's     *)
(* input values (files, pull request, history datasets) unchanged.         *)
C21_ConfigAndInputsUnchanged ==
    [][config' = config /\ params' = params]_vars

\* an analysis has run under weights that fail the validation, and has
\* handed out mitigations
C21_Witness ==
    /\ HasAnalysis
    /\ Len(analysis[1].mitigations) >= 1
    /\ weightCheck.warnings # <<>>

-----------------------------------------------------------------------------
(* C22: validateWeights returns true exactly when the configured weights   *)
(* sum to within 0.001 of 1.0; when they do not, analyzeRisk logs a        *)
(* warning and nothing else, and returns a complete RiskAnalysis computed  *)
(* with the configured weights, not normalized.                            *)

ConfiguredSum ==
    LET w == config.weights
    IN  RAdd(w.churn, RAdd(w.coverage_gap, RAdd(w.incident_hotspot,
            RAdd(w.flake_proximity, RAdd(w.diff_risk, w.time_pressure)))))

SumWithinTolerance ==
    /\ RLe(R(999, 1000), ConfiguredSum)
    /\ RLe(ConfiguredSum, R(1001, 1000))

ConfiguredScore(a) ==
    LET w == config.weights
        term(s) == RMul(w[s], a.signals[s].score)
    IN  RAdd(term("churn"), RAdd(term("coverage_gap"), RAdd(term("incident_hotspot"),
            RAdd(term("flake_proximity"), RAdd(term("diff_risk"),
                term("time_pressure"))))))

C22_WeightValidationOnlyWarns ==
    /\ weightCheck.returned # <<>> => (weightCheck.returned[1] <=> SumWithinTolerance)
    /\ (weightCheck.warnings # <<>>) <=>
          (~SumWithinTolerance /\ (HasAnalysis \/ weightCheck.returned # <<>>))
    /\ HasAnalysis =>
          LET a == analysis[1]
          IN  /\ DOMAIN a = {"score", "level", "emoji", "signals", "mitigations",
                             "auditTrace", "summary"}
              /\ DOMAIN a.signals = SignalSet
              /\ IsRounded3(a.score, ConfiguredScore(a))
              /\ a.auditTrace.weights = config.weights
              /\ a.auditTrace.finalScore = a.score

\* weights that sum to 2: the warning is on the console and the analysis
\* has returned a score above 1.0
C22_Witness ==
    /\ HasAnalysis
    /\ ConfiguredSum = R(2, 1)
    /\ weightCheck.warnings # <<>>
    /\ RLt(One, analysis[1].score)

-----------------------------------------------------------------------------
(* C29: the embedding pipeline is constructed at most once per process:    *)
(* after any number of calls to initEmbedder, createEmbedding or           *)
(* createEmbeddings, calls begun before the first construction has         *)
(* completed among them, pipeline() has been invoked at most once and all  *)
(* callers use the same instance.                                          *)
C29_PipelineConstructedOnce ==
    /\ embedder.pipelineCalls <= 1
    /\ \A c \in 1..MaxCallers, d \in 1..MaxCallers :
          (/\ embedder.callers[c].pc \in {"hasModel", "done"}
           /\ embedder.callers[d].pc \in {"hasModel", "done"})
             => embedder.callers[c].model = embedder.callers[d].model

\* C29, for the calls begun after a construction has completed: they get
\* the instance the module variable holds and pipeline() is not called
C29_NoConstructionOnceSet ==
    [][\A c \in 1..MaxCallers :
          (/\ embedder.instance # <<>>
           /\ embedder.callers[c].pc = "idle"
           /\ embedder'.callers[c].pc # "idle")
             => /\ embedder'.pipelineCalls = embedder.pipelineCalls
                /\ embedder'.callers[c].model = embedder.instance]_vars

-----------------------------------------------------------------------------
\* the entries the store has been given, in arrival order: the entry the
\* module starts with, then the entries of the add-log requests
ArrivedLogs ==
    << seedLog >> \o
    [n \in 1..store.logsAdded |->
        [timestamp |-> T0, level |-> "INFO", source |-> "webhook", message |-> n]]

ArrivedReviews ==
    [n \in 1..store.reviewsAdded |->
        [repo |-> "acme/shop", prNumber |-> n, riskScore |-> 40,
         author |-> "dev", comments |-> 0, timestamp |-> T0]]

(* C30: after any sequence of add-log and add-review requests the store    *)
(* holds at most 500 log entries and at most 50 reviews, and what it holds *)
(* are the most recently added ones, in arrival order.                     *)
C30_StoreKeepsTheLatest ==
    /\ Len(store.logs) <= 500
    /\ Len(store.reviews) <= 50
    /\ store.logs = sliceLast(ArrivedLogs, 500)
    /\ store.reviews = sliceLast(ArrivedReviews, 50)

\* C30's case: entries have been dropped from both collections
C30_Witness ==
    /\ store.logsAdded > 500
    /\ store.reviewsAdded > 50
    /\ Len(store.logs) = 500
    /\ Len(store.reviews) = 50

-----------------------------------------------------------------------------
\* the entries in the array logBuffer refers to
Buffered == {logBuffer(logger)[k] : k \in 1..Len(logBuffer(logger))}

FlushesBegun == {f \in 1..MaxFlushes : logger.flushes[f].pc # "idle"}

(* C28: with a dashboard URL configured and no send failing, a log entry   *)
(* appended with log() is removed from the buffer only after               *)
(* flushToDashboard has POSTed it: every entry logged is still in the      *)
(* buffer or has been POSTed, the entries appended while a flush is        *)
(* suspended at an await included.                                         *)
C28_NoEntryClearedUnsent ==
    \A e \in 1..logger.logged : e \in Buffered \/ e \in logger.posted

\* C28, for one flush at a time and no review to send: the entry appended
\* while the flush waits for a fetch is reached by the flush's loop
C28_LoneFlushWithoutReview ==
    (Cardinality(FlushesBegun) <= 1 /\ logger.reviewsPosted = 0)
        => C28_NoEntryClearedUnsent

\* an entry was appended while the flush waited and the flush sent it
C28_LoneFlushWitness ==
    /\ Cardinality(FlushesBegun) = 1
    /\ logger.reviewsPosted = 0
    /\ \E f \in FlushesBegun : logger.flushes[f].pc = "done" /\ logger.flushes[f].i > 2
    /\ logger.posted = 1..logger.logged
    /\ logger.logged = MaxLogs

-----------------------------------------------------------------------------
HasAnswer == hook.response # <<>>
Answer == hook.response[1]

(* C23: when analyzeRisk throws inside the webhook handler, the handler    *)
(* catches the error and goes on with context retrieval and review         *)
(* generation; the review it posts has an empty risk summary, its answer   *)
(* has riskAnalysis null, and a 500 it answers is not caused by that error.*)
C23_RiskFailureIsContained ==
    hook.riskError # <<>> =>
        /\ hook.riskAnalysis = <<>>
        /\ hook.pc \in {"context", "openai", "post", "responded"}
        /\ hook.pc \in {"openai", "post", "responded"} => "createEmbedding" \in hook.calls
        /\ hook.pc \in {"post", "responded"} => "openai" \in hook.calls
        /\ hook.posted # <<>> => hook.posted[1].riskSummary = <<>>
        /\ HasAnswer =>
              /\ Answer.status \in {200, 500}
              /\ Answer.status = 500 => Answer.body.details # hook.riskError[1]
              /\ (Answer.status = 200 /\ Answer.body.message = "Review posted successfully")
                    => Answer.body.riskAnalysis = <<>>

\* C23's case: analyzeRisk threw and the review was posted and answered 200
C23_Witness ==
    /\ hook.riskError # <<>>
    /\ HasAnswer
    /\ Answer.status = 200
    /\ Answer.body.message = "Review posted successfully"
    /\ hook.posted # <<>>
    /\ hook.posted[1].kind = "review"
    /\ hook.posted[1].riskSummary = <<>>

\* the three conditions of a request that is reviewed
Accepted(req) ==
    /\ req.method = "POST"
    /\ req.event = "pull_request"
    /\ req.body # <<>>
    /\ req.body[1].action \in { <<"opened">>, <<"synchronize">> }

(* C27: the webhook handler performs no GitHub, OpenAI, vector-store or    *)
(* risk-analysis call unless the request method is POST, the x-github-event*)
(* header is pull_request and the action is opened or synchronize; a       *)
(* non-POST request is answered 405 and the other rejected requests 200,   *)
(* each before any external call.                                          *)
C27_RejectedBeforeAnyCall ==
    (hook.request # <<>> /\ ~Accepted(hook.request[1])) =>
        /\ hook.calls = {}
        /\ HasAnswer
        /\ Answer.status = (IF hook.request[1].method # "POST" THEN 405 ELSE 200)

\* C27, without the answers: no call is made for a request that fails one of
\* the three conditions
C27_NoCallUnlessAccepted ==
    hook.calls # {} => (hook.request # <<>> /\ Accepted(hook.request[1]))

\* C27, for the requests that have a body: the answers are 405 and 200
C27_RejectedWithBody ==
    (/\ hook.request # <<>>
     /\ ~Accepted(hook.request[1])
     /\ (hook.request[1].method = "POST" /\ hook.request[1].event = "pull_request")
           => hook.request[1].body # <<>>)
        => /\ hook.calls = {}
           /\ HasAnswer
           /\ Answer.status = (IF hook.request[1].method # "POST" THEN 405 ELSE 200)

====
